---- MODULE Spec2Model ----
(***************************************************************************)
(* Model of the smart chessboard firmware: the chess rule engine           *)
(* (src/src/chess.py), the physical board model (src/src/chessboard.py)    *)
(* and the move reconciliation loop (src/src/app.py, event_listener).      *)
(*                                                                         *)
(* Python strings are modelled as sequences of one-character strings, so   *)
(* that slicing, splitting, searching and formatting are computed the way  *)
(* the code computes them.  A Python exception is modelled as an explicit  *)
(* outcome (a "raised" field, or a sentinel value) that callers propagate. *)
(***************************************************************************)
EXTENDS Integers, Sequences, FiniteSets, TLC

(***************************************************************************)
(* Characters and small string helpers                                     *)
(***************************************************************************)
RANK == <<"1", "2", "3", "4", "5", "6", "7", "8">>
FILE == <<"a", "b", "c", "d", "e", "f", "g", "h">>
PROMOTED_PIECES == <<"N", "B", "R", "Q">>

RankChars == {RANK[i] : i \in 1..8}
FileChars == {FILE[i] : i \in 1..8}
PromoChars == {"N", "B", "R", "Q", "n", "b", "r", "q"}
UpperPieces == {"P", "N", "B", "R", "Q", "K"}
LowerPieces == {"p", "n", "b", "r", "q", "k"}
DigitChars == <<"0", "1", "2", "3", "4", "5", "6", "7", "8", "9">>

Squares == 0..63
EmptyBoard == [i \in Squares |-> " "]

W == <<"w">>
B == <<"b">>
DASH == <<"-">>
OO == <<"O", "-", "O">>
OOO == <<"O", "-", "O", "-", "O">>
EP_SUFFIX == <<"e", ".", "p", ".">>

\* str.isupper() / str.islower() of a one-character board cell
isupper(c) == c \in UpperPieces
islower(c) == c \in LowerPieces

\* str.upper() / str.lower() on the letters the engine handles
upper(c) ==
  CASE c = "n" -> "N" [] c = "b" -> "B" [] c = "r" -> "R" [] c = "q" -> "Q"
    [] c = "p" -> "P" [] c = "k" -> "K" [] OTHER -> c
lower(c) ==
  CASE c = "N" -> "n" [] c = "B" -> "b" [] c = "R" -> "r" [] c = "Q" -> "q"
    [] c = "P" -> "p" [] c = "K" -> "k" [] OTHER -> c

\* list.index(x) / str.index(x): 1-based position of the first x, 0 if absent
SeqIndex(s, x) ==
  IF \E i \in 1..Len(s) : s[i] = x
  THEN CHOOSE i \in 1..Len(s) : s[i] = x /\ \A j \in 1..(i - 1) : s[j] # x
  ELSE 0

\* Python slice s[a:b] (0-based, b exclusive, clamped to the string)
Slice(s, a, b) == SubSeq(s, a + 1, IF b < Len(s) THEN b ELSE Len(s))

\* x in s, for a character x and a string s
InStr(x, s) == \E i \in 1..Len(s) : s[i] = x

\* sentinel index results
RaisedIdx == 0 - 1
NoneIdx == 0 - 2

\* three-valued result of a boolean function that may raise
BFalse == "False"
BTrue == "True"
BRaise == "Raise"
B3(b) == IF b THEN BTrue ELSE BFalse

(***************************************************************************)
(* Decimal formatting and parsing: str(int) and int(str)                   *)
(***************************************************************************)
RECURSIVE IntToStr(_)
IntToStr(n) ==
  IF n < 10 THEN <<DigitChars[n + 1]>>
  ELSE Append(IntToStr(n \div 10), DigitChars[(n % 10) + 1])

IsDigit(c) == \E i \in 1..10 : DigitChars[i] = c
DigitVal(c) == SeqIndex(DigitChars, c) - 1

RECURSIVE StrToIntAcc(_, _, _)
StrToIntAcc(s, i, acc) ==
  IF i > Len(s) THEN acc
  ELSE StrToIntAcc(s, i + 1, acc * 10 + DigitVal(s[i]))

\* int(s): RaisedIdx models ValueError
StrToInt(s) ==
  IF Len(s) = 0 \/ \E i \in 1..Len(s) : ~IsDigit(s[i]) THEN RaisedIdx
  ELSE StrToIntAcc(s, 1, 0)

\* the k-th smallest element of a finite set of integers
KthOf(S, k) == CHOOSE i \in S : Cardinality({j \in S : j < i}) = k - 1

\* str.split(): split on runs of blanks, no empty tokens
Split(s) ==
  LET starts == {i \in 1..Len(s) : s[i] # " " /\ (i = 1 \/ s[i - 1] = " ")}
      endOf(i) == CHOOSE j \in i..Len(s) :
                    /\ \A k \in i..j : s[k] # " "
                    /\ (j = Len(s) \/ s[j + 1] = " ")
  IN [k \in 1..Cardinality(starts) |->
        SubSeq(s, KthOf(starts, k), endOf(KthOf(starts, k)))]

\* str.split(sep): split on every separator, empty tokens kept
SplitOn(s, sep) ==
  LET seps == {i \in 1..Len(s) : s[i] = sep}
      n    == Cardinality(seps)
      cut(k) == IF k = 0 THEN 0 ELSE IF k > n THEN Len(s) + 1 ELSE KthOf(seps, k)
  IN [k \in 1..(n + 1) |-> SubSeq(s, cut(k - 1) + 1, cut(k) - 1)]

(***************************************************************************)
(* Move notation (chess.py, module level)                                  *)
(***************************************************************************)
board_index_to_algebraic(index) == <<FILE[(index % 8) + 1], RANK[(index \div 8) + 1]>>

\* RaisedIdx: IndexError (string too short) or ValueError (not a file/rank)
algebraic_to_board_index(algebraic) ==
  IF algebraic = OO \/ algebraic = OOO THEN NoneIdx
  ELSE IF Len(algebraic) < 2 THEN RaisedIdx
  ELSE IF SeqIndex(RANK, algebraic[2]) = 0 \/ SeqIndex(FILE, algebraic[1]) = 0
       THEN RaisedIdx
  ELSE (SeqIndex(RANK, algebraic[2]) - 1) * 8 + (SeqIndex(FILE, algebraic[1]) - 1)

move_notation(from_square, to_square, capture, promotion, enpassant, castle) ==
  IF castle
  THEN (IF to_square = 2 \/ to_square = 58 THEN OOO ELSE OO)
  ELSE board_index_to_algebraic(from_square)
       \o <<IF capture THEN "x" ELSE "-">>
       \o board_index_to_algebraic(to_square)
       \o (IF promotion # "" THEN <<"=", promotion>> ELSE <<>>)
       \o (IF enpassant THEN EP_SUFFIX ELSE <<>>)

check_boundary(index, rank) == 0 <= index /\ index < 64 /\ index \div 8 = rank

(***************************************************************************)
(* The regular expressions of chess.py, matched at the start of the string *)
(* with Python's greedy, backtracking semantics.                           *)
(*   MOVE_NOTATION_REGEX (first group optional), and the variant used by   *)
(*   is_promotion / perform_promotion (first group required).              *)
(* A match is a record of the groups; an absent group is the empty string. *)
(***************************************************************************)
IsSquareAt(s, p) ==
  p + 1 <= Len(s) /\ s[p] \in FileChars /\ s[p + 1] \in RankChars
IsSepAt(s, p) == p <= Len(s) /\ s[p] \in {"-", "x"}

NoMatch == [matched |-> FALSE, g1 |-> <<>>, g2 |-> <<>>, g3 |-> <<>>,
            g4 |-> <<>>, g5 |-> <<>>]

\* groups 4 and 5, starting at 1-based position p
MatchTail(s, p, g1, g2, g3) ==
  LET g4 == IF p + 1 <= Len(s) /\ s[p] = "=" /\ s[p + 1] \in PromoChars
            THEN <<s[p], s[p + 1]>>
            ELSE IF p <= Len(s) /\ s[p] \in PromoChars THEN <<s[p]>>
            ELSE <<>>
      q  == p + Len(g4)
      g5 == IF q + 3 <= Len(s) /\ SubSeq(s, q, q + 3) = EP_SUFFIX
            THEN EP_SUFFIX ELSE <<>>
  IN [matched |-> TRUE, g1 |-> g1, g2 |-> g2, g3 |-> g3, g4 |-> g4, g5 |-> g5]

RegexMatch(s, firstOptional) ==
  IF IsSquareAt(s, 1) /\ IsSepAt(s, 3) /\ IsSquareAt(s, 4)
  THEN MatchTail(s, 6, SubSeq(s, 1, 2), <<s[3]>>, SubSeq(s, 4, 5))
  ELSE IF IsSquareAt(s, 1) /\ IsSquareAt(s, 3)
  THEN MatchTail(s, 5, SubSeq(s, 1, 2), <<>>, SubSeq(s, 3, 4))
  ELSE IF firstOptional /\ IsSepAt(s, 1) /\ IsSquareAt(s, 2)
  THEN MatchTail(s, 4, <<>>, <<s[1]>>, SubSeq(s, 2, 3))
  ELSE IF firstOptional /\ IsSquareAt(s, 1)
  THEN MatchTail(s, 3, <<>>, <<>>, SubSeq(s, 1, 2))
  ELSE NoMatch

validate_notation(chess_move) ==
  IF chess_move = OO \/ chess_move = OOO THEN TRUE
  ELSE
    LET m == RegexMatch(chess_move, TRUE) IN
    IF ~m.matched THEN FALSE
    ELSE IF m.g1 = <<>> /\ m.g3 # <<>> /\ m.g2 = <<>> THEN TRUE
    ELSE IF m.g2 = <<"x">> /\ m.g4 # <<>> THEN m.g1 # <<>> /\ m.g3 # <<>>
    ELSE IF m.g2 \in {<<"-">>, <<"x">>} /\ m.g4 = <<>> THEN m.g1 # <<>> /\ m.g3 # <<>>
    ELSE IF m.g1 # <<>> /\ m.g2 = <<>> /\ m.g3 # <<>> THEN TRUE
    ELSE IF m.g1 # <<>> /\ m.g3 # <<>> /\ InStr("=", chess_move) /\ m.g4 # <<>> THEN TRUE
    ELSE IF m.g2 = <<"x">> /\ m.g5 # <<>> THEN TRUE
    ELSE FALSE

(***************************************************************************)
(* Chess instance state.  A game is a record of the instance attributes.   *)
(***************************************************************************)
\* list.remove(x): the list without its first x; raised when x is absent
ListRemove(s, x) ==
  LET i == SeqIndex(s, x) IN
  IF i = 0 THEN [raised |-> TRUE, list |-> s]
  ELSE [raised |-> FALSE, list |-> SubSeq(s, 1, i - 1) \o SubSeq(s, i + 1, Len(s))]

\* board.index(piece): RaisedIdx models ValueError
BoardIndex(board, piece) ==
  LET at == {i \in Squares : board[i] = piece} IN
  IF at = {} THEN RaisedIdx
  ELSE CHOOSE i \in at : \A j \in at : i <= j

\* Python list indexing board[i]: negative indices count from the end
PyIdx(i) == IF i < 0 THEN i + 64 ELSE i
PyInRange(i) == 0 - 64 <= i /\ i < 64

is_enemy(board, index, color) ==
  IF color = W THEN islower(board[index]) ELSE isupper(board[index])
is_friendly(board, index, color) ==
  IF color = W THEN isupper(board[index]) ELSE islower(board[index])

(***************************************************************************)
(* FEN: Chess.set_fen and Chess.get_fen                                    *)
(***************************************************************************)
\* the squares taken by the first k characters of one rank of the placement
\* field: a digit skips that many squares, a letter fills one
RECURSIVE FenWidth(_, _)
FenWidth(rank, k) ==
  IF k = 0 THEN 0
  ELSE FenWidth(rank, k - 1) + (IF IsDigit(rank[k]) THEN DigitVal(rank[k]) ELSE 1)

\* what the placement loop leaves on file j of a rank
FenRankCell(rank, j) ==
  LET hits == {k \in 1..Len(rank) : ~IsDigit(rank[k]) /\ FenWidth(rank, k - 1) = j} IN
  IF hits = {} THEN " " ELSE rank[CHOOSE k \in hits : TRUE]

\* the board the placement loop builds: the first rank text is rank 8
FenPlace(ranks) ==
  [sq \in Squares |->
     IF 8 - (sq \div 8) > Len(ranks) THEN " "
     ELSE FenRankCell(ranks[8 - (sq \div 8)], sq % 8)]

\* the placement loop stays inside the board (no IndexError)
FenPlacementFits(ranks) ==
  /\ Len(ranks) <= 8
  /\ \A r \in 1..Len(ranks) : FenWidth(ranks[r], Len(ranks[r])) <= 8

set_fen(g, fenstr) ==
  LET fen == Split(fenstr)
      n   == Len(fen)
      g0  == [g EXCEPT !.board = EmptyBoard]
      g1  == IF n >= 2 THEN [g0 EXCEPT !.turn = fen[2]] ELSE g0
      g2  == IF n >= 3 THEN [g1 EXCEPT !.castling = fen[3]] ELSE g1
      g3  == IF n >= 4 THEN [g2 EXCEPT !.enpassant = fen[4]] ELSE g2
      hm  == IF n >= 5 THEN StrToInt(fen[5]) ELSE RaisedIdx
      g4  == IF hm # RaisedIdx THEN [g3 EXCEPT !.halfmove = hm] ELSE g3
      fm  == IF n >= 6 THEN StrToInt(fen[6]) ELSE RaisedIdx
  IN
  IF n < 2 THEN [g |-> g0, raised |-> TRUE]
  ELSE IF n < 3 THEN [g |-> g1, raised |-> TRUE]
  ELSE IF n < 4 THEN [g |-> g2, raised |-> TRUE]
  ELSE IF hm = RaisedIdx THEN [g |-> g3, raised |-> TRUE]
  ELSE IF fm = RaisedIdx THEN [g |-> g4, raised |-> TRUE]
  ELSE IF ~FenPlacementFits(SplitOn(fen[1], "/")) THEN [g |-> g4, raised |-> TRUE]
  ELSE [g |-> [g4 EXCEPT !.fullmove = fm,
                         !.check_flag = FALSE,
                         !.checkmate_flag = FALSE,
                         !.stalemate_flag = FALSE,
                         !.insufficient_material_flag = FALSE,
                         !.game_over_flag = FALSE,
                         !.board = FenPlace(SplitOn(fen[1], "/"))],
        raised |-> FALSE]

\* one rank of the placement field of get_fen, from file j on, with the
\* count of empty squares met since the last piece
RECURSIVE FenRankText(_, _, _, _)
FenRankText(board, i, j, empty) ==
  IF j > 7
  THEN (IF empty > 0 THEN IntToStr(empty) ELSE <<>>)
  ELSE IF board[i + j] = " "
       THEN FenRankText(board, i, j + 1, empty + 1)
       ELSE (IF empty > 0 THEN IntToStr(empty) ELSE <<>>)
            \o <<board[i + j]>> \o FenRankText(board, i, j + 1, 0)

\* the placement field: rank 8 first, "/" between ranks
FenBoardText(board) ==
  LET rank(r) == FenRankText(board, 8 * (r - 1), 0, 0) IN
  rank(8) \o <<"/">> \o rank(7) \o <<"/">> \o rank(6) \o <<"/">> \o rank(5)
    \o <<"/">> \o rank(4) \o <<"/">> \o rank(3) \o <<"/">> \o rank(2)
    \o <<"/">> \o rank(1)

get_fen(g) ==
  FenBoardText(g.board)
    \o <<" ">> \o g.turn \o <<" ">> \o g.castling \o <<" ">> \o g.enpassant
    \o <<" ">> \o IntToStr(g.halfmove) \o <<" ">> \o IntToStr(g.fullmove)

(***************************************************************************)
(* Pseudo-legal move generation                                            *)
(***************************************************************************)
Opt(cond, moves) == IF cond THEN moves ELSE <<>>

\* the four promotion variants, in the order of PROMOTED_PIECES
PromotionMoves(from, to, capture, white) ==
  [k \in 1..4 |->
     move_notation(from, to, capture,
                   IF white THEN upper(PROMOTED_PIECES[k]) ELSE lower(PROMOTED_PIECES[k]),
                   FALSE, FALSE)]

generate_pawn_moves(g, index) ==
  LET b == g.board
      quiet(to) == move_notation(index, to, FALSE, "", FALSE, FALSE)
      capt(to)  == move_notation(index, to, TRUE, "", FALSE, FALSE)
      ep(to)    == move_notation(index, to, TRUE, "", TRUE, FALSE)
  IN
  IF isupper(b[index])
  THEN
       Opt(b[index + 8] = " ",
           (IF (index + 8) \div 8 < 7 THEN <<quiet(index + 8)>>
            ELSE PromotionMoves(index, index + 8, FALSE, TRUE))
           \o Opt(index < 16 /\ b[index + 16] = " ", <<quiet(index + 16)>>))
    \o Opt(check_boundary(index + 9, (index \div 8) + 1) /\ islower(b[index + 9]),
           IF (index + 9) \div 8 < 7 THEN <<capt(index + 9)>>
           ELSE PromotionMoves(index, index + 9, TRUE, TRUE))
    \o Opt(check_boundary(index + 7, (index \div 8) + 1) /\ islower(b[index + 7]),
           IF (index + 7) \div 8 < 7 THEN <<capt(index + 7)>>
           ELSE PromotionMoves(index, index + 7, TRUE, TRUE))
    \o Opt(index % 8 > 0 /\ b[index - 1] = "p"
             /\ g.enpassant = <<FILE[index % 8], "6">>,
           <<ep(index + 7)>>)
    \o Opt(index % 8 < 7 /\ b[index + 1] = "p"
             /\ g.enpassant = <<FILE[(index % 8) + 2], "6">>,
           <<ep(index + 9)>>)
  ELSE
       Opt(b[PyIdx(index - 8)] = " ",
           (IF (index - 8) \div 8 > 0 THEN <<quiet(index - 8)>>
            ELSE PromotionMoves(index, index - 8, FALSE, FALSE))
           \o Opt(index > 47 /\ b[index - 16] = " ", <<quiet(index - 16)>>))
    \o Opt(check_boundary(index - 7, (index \div 8) - 1) /\ isupper(b[index - 7]),
           IF (index - 7) \div 8 > 0 THEN <<capt(index - 7)>>
           ELSE PromotionMoves(index, index - 7, TRUE, FALSE))
    \o Opt(check_boundary(index - 9, (index \div 8) - 1) /\ isupper(b[index - 9]),
           IF (index - 9) \div 8 > 0 THEN <<capt(index - 9)>>
           ELSE PromotionMoves(index, index - 9, TRUE, FALSE))
    \o Opt(index % 8 > 0 /\ b[index - 1] = "P"
             /\ g.enpassant = <<FILE[index % 8], "3">>,
           <<ep(index - 9)>>)
    \o Opt(index % 8 < 7 /\ b[index + 1] = "P"
             /\ g.enpassant = <<FILE[(index % 8) + 2], "3">>,
           <<ep(index - 7)>>)

\* one candidate of generate_knight_moves / generate_king_moves: the guard is
\* evaluated first, then the target square is read
StepMove(b, side, index, guard, d) ==
  IF guard /\ (b[index + d] = " " \/ is_enemy(b, index + d, side))
  THEN <<move_notation(index, index + d, is_enemy(b, index + d, side), "", FALSE, FALSE)>>
  ELSE <<>>

generate_knight_moves(g, index) ==
  LET b    == g.board
      side == IF isupper(b[index]) THEN W ELSE B
      f    == index % 8
      K(guard, d) == StepMove(b, side, index, guard, d)
  IN
     Opt(f > 0,
            K(index > 15, 0 - 15)
         \o K(f < 6 /\ index > 7, 0 - 6)
         \o K(f < 7 /\ index < 48, 17)
         \o K(f < 6 /\ index < 56, 10))
  \o Opt(f < 7,
            K(f > 0 /\ index > 16, 0 - 17)
         \o K(f > 1 /\ index > 7, 0 - 10)
         \o K(f > 0 /\ index < 48, 15)
         \o K(f > 1 /\ index < 56, 6))
  \o Opt(f = 0,
            K(index > 15, 0 - 15)
         \o K(index > 7, 0 - 6)
         \o K(index < 48, 17)
         \o K(index < 56, 10))
  \o Opt(f = 7,
            K(index > 16, 0 - 17)
         \o K(index > 7, 0 - 10)
         \o K(index < 48, 15)
         \o K(index < 56, 6))

\* the edge test of each diagonal loop of generate_bishop_moves; the rook
\* loops have none (their range() is the bound)
RayInside(index, d, i) ==
  LET r0 == index \div 8 IN
  CASE d = 9     -> (index + 9 * i) < 8 * ((r0 + i) + 1)
    [] d = 7     -> (index + 7 * i) > 8 * (r0 + i) - 1
    [] d = 0 - 7 -> (index - 7 * i) < 8 * ((r0 - i) + 1)
    [] d = 0 - 9 -> (index - 9 * i) > 8 * (r0 - i) - 1
    [] OTHER     -> TRUE

\* One ray of a sliding piece: step d, i-th square, at most n squares.
\* Stops at the first occupied square.
RECURSIVE SlideRay(_, _, _, _, _, _)
SlideRay(b, side, index, d, i, n) ==
  IF i > n \/ ~RayInside(index, d, i) THEN <<>>
  ELSE IF b[index + d * i] = " "
       THEN <<move_notation(index, index + d * i, FALSE, "", FALSE, FALSE)>>
            \o SlideRay(b, side, index, d, i + 1, n)
       ELSE IF is_enemy(b, index + d * i, side)
            THEN <<move_notation(index, index + d * i, TRUE, "", FALSE, FALSE)>>
            ELSE <<>>

generate_bishop_moves(g, index) ==
  LET b    == g.board
      side == IF isupper(b[index]) THEN W ELSE B
      r0   == index \div 8
  IN
     SlideRay(b, side, index, 9, 1, 7 - r0)
  \o SlideRay(b, side, index, 7, 1, 7 - r0)
  \o SlideRay(b, side, index, 0 - 7, 1, r0)
  \o SlideRay(b, side, index, 0 - 9, 1, r0)

generate_rook_moves(g, index) ==
  LET b    == g.board
      side == IF isupper(b[index]) THEN W ELSE B
      r0   == index \div 8
      f0   == index % 8
  IN
     SlideRay(b, side, index, 8, 1, 7 - r0)
  \o SlideRay(b, side, index, 0 - 8, 1, r0)
  \o SlideRay(b, side, index, 1, 1, 7 - f0)
  \o SlideRay(b, side, index, 0 - 1, 1, f0)

generate_queen_moves(g, index) ==
  generate_bishop_moves(g, index) \o generate_rook_moves(g, index)

(***************************************************************************)
(* Attack detection: Chess.is_square_attacked                              *)
(***************************************************************************)
\* a sliding attack along step d, from the j-th square of the ray: walk while
\* the ray stays on the board and on the expected rank; the first occupied
\* square decides
RECURSIVE SlidingAttackFrom(_, _, _, _, _, _, _)
SlidingAttackFrom(board, index, d, rankStep, p1, p2, j) ==
  LET t == index + d * j IN
  IF j > 7 THEN FALSE
  ELSE IF ~(0 <= t /\ t < 64 /\ check_boundary(t, (index \div 8) + rankStep * j)) THEN FALSE
  ELSE IF board[t] = p1 \/ board[t] = p2 THEN TRUE
  ELSE IF board[t] # " " THEN FALSE
  ELSE SlidingAttackFrom(board, index, d, rankStep, p1, p2, j + 1)

SlidingAttack(board, index, d, rankStep, p1, p2) ==
  SlidingAttackFrom(board, index, d, rankStep, p1, p2, 1)

KnightOffsets == <<0 - 17, 0 - 15, 0 - 10, 0 - 6, 6, 10, 15, 17>>
KnightRankIdx == <<0 - 2, 0 - 2, 0 - 1, 0 - 1, 1, 1, 2, 2>>
KingOffsets == {0 - 9, 0 - 8, 0 - 7, 0 - 1, 1, 7, 8, 9}

\* side is the friendly side; <<>> stands for None (taken from the piece on
\* the square).  BRaise: IndexError of board[index + 9] / board[index + 7].
is_square_attacked(index, board, side0) ==
  LET side == IF side0 = <<>> THEN (IF isupper(board[index]) THEN W ELSE B) ELSE side0
      white == side = W
      pawnRaises ==
        white /\ ( (index % 8 # 0 /\ index > 7 /\ ~PyInRange(index + 9))
                   \/ ((index + 1) % 8 # 0 /\ index > 7 /\ ~PyInRange(index + 7)) )
      pawn ==
        IF white
        THEN \/ (index % 8 # 0 /\ index > 7 /\ board[PyIdx(index + 9)] = "p")
             \/ ((index + 1) % 8 # 0 /\ index > 7 /\ board[PyIdx(index + 7)] = "p")
        ELSE \/ (index % 8 # 0 /\ index < 56 /\ board[PyIdx(index - 7)] = "P")
             \/ ((index + 1) % 8 # 0 /\ index < 56 /\ board[PyIdx(index - 9)] = "P")
      knight ==
        \E j \in 1..8 :
          /\ check_boundary(index + KnightOffsets[j], (index \div 8) + KnightRankIdx[j])
          /\ board[index + KnightOffsets[j]] = (IF white THEN "n" ELSE "N")
      diag ==
        \/ SlidingAttack(board, index, 0 - 9, 0 - 1, IF white THEN "b" ELSE "B", IF white THEN "q" ELSE "Q")
        \/ SlidingAttack(board, index, 0 - 7, 0 - 1, IF white THEN "b" ELSE "B", IF white THEN "q" ELSE "Q")
        \/ SlidingAttack(board, index, 7, 1, IF white THEN "b" ELSE "B", IF white THEN "q" ELSE "Q")
        \/ SlidingAttack(board, index, 9, 1, IF white THEN "b" ELSE "B", IF white THEN "q" ELSE "Q")
      line ==
        \/ SlidingAttack(board, index, 0 - 8, 0 - 1, IF white THEN "r" ELSE "R", IF white THEN "q" ELSE "Q")
        \/ SlidingAttack(board, index, 0 - 1, 0, IF white THEN "r" ELSE "R", IF white THEN "q" ELSE "Q")
        \/ SlidingAttack(board, index, 1, 0, IF white THEN "r" ELSE "R", IF white THEN "q" ELSE "Q")
        \/ SlidingAttack(board, index, 8, 1, IF white THEN "r" ELSE "R", IF white THEN "q" ELSE "Q")
      king ==
        \E i \in KingOffsets :
          0 <= index + i /\ index + i < 64 /\ board[index + i] = (IF white THEN "k" ELSE "K")
  IN
  IF pawnRaises THEN BRaise
  ELSE B3(pawn \/ knight \/ diag \/ line \/ king)

(***************************************************************************)
(* Castling availability and king moves                                    *)
(***************************************************************************)
Attacked3(g, squares, side) ==
  \E q \in squares : is_square_attacked(q, g.board, side) = BTrue

\* BRaise: ValueError of board.index when the king is not on the board
\* The four branches of the source differ in the king, its home square, the
\* rights letter, the squares that must be empty and the squares that must
\* not be attacked; the tests run in the source's order.
check_castle(g, index, side) ==
  LET b      == g.board
      white  == side = W
      short  == index = (IF white THEN 6 ELSE 62)
      home   == IF white THEN 4 ELSE 60
      kingAt == BoardIndex(b, IF white THEN "K" ELSE "k")
      right  == IF white THEN (IF short THEN "K" ELSE "Q")
                ELSE (IF short THEN "k" ELSE "q")
      between == IF short THEN {home + 1, home + 2}
                 ELSE {home - 3, home - 2, home - 1}
      path   == IF short THEN {home, home + 1, home + 2}
                ELSE {home - 2, home - 1, home}
  IN
  IF kingAt = RaisedIdx THEN BRaise
  ELSE IF kingAt # home THEN BFalse
  ELSE IF ~InStr(right, g.castling) THEN BFalse
  ELSE IF \E q \in between : b[q] # " " THEN BFalse
  ELSE IF Attacked3(g, path, side) THEN BFalse
  ELSE BTrue

generate_king_moves(g, index) ==
  LET b    == g.board
      side == IF isupper(b[index]) THEN W ELSE B
      K(guard, d) == StepMove(b, side, index, guard, d)
  IN
     K(index < 56, 8)
  \o K(index > 7, 0 - 8)
  \o K((index + 1) % 8 # 0, 1)
  \o K(index % 8 # 0, 0 - 1)
  \o K((index + 1) % 8 # 0 /\ index < 56, 9)
  \o K(index % 8 # 0 /\ index < 56, 7)
  \o K((index + 1) % 8 # 0 /\ index > 7, 0 - 7)
  \o K(index % 8 # 0 /\ index > 7, 0 - 9)
  \o Opt(check_castle(g, IF side = W THEN 6 ELSE 62, side) = BTrue, <<OO>>)
  \o Opt(check_castle(g, IF side = W THEN 2 ELSE 58, side) = BTrue, <<OOO>>)

generate_moves(g, index) ==
  LET piece == g.board[index] IN
  CASE piece \in {"P", "p"} -> generate_pawn_moves(g, index)
    [] piece \in {"N", "n"} -> generate_knight_moves(g, index)
    [] piece \in {"B", "b"} -> generate_bishop_moves(g, index)
    [] piece \in {"R", "r"} -> generate_rook_moves(g, index)
    [] piece \in {"Q", "q"} -> generate_queen_moves(g, index)
    [] piece \in {"K", "k"} -> generate_king_moves(g, index)
    [] OTHER -> <<>>

(***************************************************************************)
(* Special-move recognition and the self-check filter                      *)
(***************************************************************************)
IsCastleToken(move) == move = OO \/ move = OOO

\* BRaise: the stored en-passant text is not a square
is_enpassant(g, move) ==
  IF g.enpassant = DASH THEN BFalse
  ELSE IF IsCastleToken(move) THEN BFalse
  ELSE
    LET index     == algebraic_to_board_index(Slice(move, 0, 2))
        enpassant == algebraic_to_board_index(g.enpassant)
    IN
    IF index < 0 \/ enpassant < 0 THEN BRaise
    ELSE
      LET piece == g.board[index]
          side  == IF isupper(piece) THEN W ELSE B
      IN
      IF piece \notin {"P", "p"} THEN BFalse
      ELSE IF side = W /\ ~PyInRange(enpassant - 8) THEN BRaise
      ELSE IF side = W /\ g.board[PyIdx(enpassant - 8)] # "p" THEN BFalse
      ELSE IF side = B /\ ~PyInRange(enpassant + 8) THEN BRaise
      ELSE IF side = B /\ g.board[PyIdx(enpassant + 8)] # "P" THEN BFalse
      ELSE B3(g.enpassant = Slice(move, 3, 5))

\* BRaise: the pattern does not match (attribute access on None)
is_promotion(g, move) ==
  IF IsCastleToken(move) THEN BFalse
  ELSE
    LET m == RegexMatch(move, FALSE) IN
    IF ~m.matched THEN BRaise
    ELSE
      LET piece == g.board[algebraic_to_board_index(m.g1)]
          side  == IF isupper(piece) THEN W ELSE B
      IN
      IF piece \notin {"P", "p"} THEN BFalse
      ELSE IF side = B /\ m.g3[2] = "1" THEN BTrue
      ELSE IF side = W /\ m.g3[2] = "8" THEN BTrue
      ELSE BFalse

\* the scratch board after the move (castle tokens never reach this: the
\* caller returns before); the en-passant test reads the live game
make_test_move(g, board, move, side) ==
  LET from_square == algebraic_to_board_index(Slice(move, 0, 2))
      to_square   == algebraic_to_board_index(Slice(move, 3, 5))
  IN
  IF is_enpassant(g, move) = BTrue
  THEN LET ep == algebraic_to_board_index(g.enpassant)
           captured_square == IF side = W THEN ep - 8 ELSE ep + 8
       IN [board EXCEPT ![from_square] = " ",
                        ![to_square] = IF side = W THEN "P" ELSE "p",
                        ![captured_square] = " "]
  ELSE [board EXCEPT ![from_square] = " ", ![to_square] = board[from_square]]

\* the last two statements of is_move_in_check, on the scratch board
KingAttackedOn(previous_board, king_index) ==
  IF king_index = RaisedIdx THEN BRaise
  ELSE is_square_attacked(king_index, previous_board, <<>>)

KingInCheckOn(previous_board, king_piece) ==
  KingAttackedOn(previous_board, BoardIndex(previous_board, king_piece))

is_move_in_check(g, move) ==
  IF IsCastleToken(move) THEN BFalse
  ELSE
    LET moved_piece == algebraic_to_board_index(Slice(move, 0, 2))
        side        == IF isupper(g.board[moved_piece]) THEN W ELSE B
    IN KingInCheckOn(make_test_move(g, g.board, move, side),
                     IF side = W THEN "K" ELSE "k")

\* the moves whose test answered False, in their order
KeepLegal(moves, verdict) ==
  LET kept == {k \in 1..Len(moves) : verdict[k] = BFalse} IN
  [n \in 1..Cardinality(kept) |-> moves[KthOf(kept, n)]]

\* the moves whose verdict is "not in check"; raised when any test raised
FilterByVerdict(moves, verdict) ==
  IF \E k \in 1..Len(moves) : verdict[k] = BRaise
  THEN [raised |-> TRUE, moves |-> <<>>]
  ELSE [raised |-> FALSE, moves |-> KeepLegal(moves, verdict)]

\* the moves that do not leave the king attacked
remove_illegal_moves(g, moves) ==
  FilterByVerdict(moves, [k \in 1..Len(moves) |-> is_move_in_check(g, moves[k])])

get_legal_moves(g, index) ==
  IF g.board[index] = " " THEN [raised |-> FALSE, moves |-> <<>>]
  ELSE remove_illegal_moves(g, generate_moves(g, index))

OwnPiece(g, i, color) ==
  (isupper(g.board[i]) /\ color = W) \/ (islower(g.board[i]) /\ color = B)

\* the moves gathered by the loop of all_legal_moves over the squares lo..hi,
\* in index order (the range is halved to keep the evaluation shallow)
RECURSIVE PseudoMovesBetween(_, _, _, _)
PseudoMovesBetween(g, color, lo, hi) ==
  IF lo = hi
  THEN (IF OwnPiece(g, lo, color) THEN generate_moves(g, lo) ELSE <<>>)
  ELSE PseudoMovesBetween(g, color, lo, (lo + hi) \div 2)
       \o PseudoMovesBetween(g, color, ((lo + hi) \div 2) + 1, hi)

AllPseudoMoves(g, color) == PseudoMovesBetween(g, color, 0, 63)

\* the first square at or after i that holds a piece of color; 64 when none
NextOwn(g, color, i) ==
  LET own == {j \in i..63 : OwnPiece(g, j, color)} IN
  IF own = {} THEN 64 ELSE CHOOSE j \in own : \A k \in own : j <= k

\* the loop of all_legal_moves with shortcut=True: filter what was gathered
\* so far after every square, return at the first non-empty result.  Nothing
\* is carried over a square that yields no move, so the squares without a
\* piece of the colour are stepped over.
RECURSIVE AllLegalShortcut(_, _, _, _)

\* after the moves of square i were filtered
ShortcutFiltered(g, color, i, filtered) ==
  IF filtered.raised THEN filtered
  ELSE IF Len(filtered.moves) > 0 THEN filtered
  ELSE AllLegalShortcut(g, color, NextOwn(g, color, i + 1), filtered.moves)

\* after the moves of square i were gathered
ShortcutGathered(g, color, i, gathered) ==
  IF Len(gathered) = 0
  THEN AllLegalShortcut(g, color, NextOwn(g, color, i + 1), gathered)
  ELSE ShortcutFiltered(g, color, i, remove_illegal_moves(g, gathered))

AllLegalShortcut(g, color, i, moves) ==
  IF i > 63 THEN remove_illegal_moves(g, moves)
  ELSE ShortcutGathered(g, color, i,
         moves \o (IF OwnPiece(g, i, color) THEN generate_moves(g, i) ELSE <<>>))

\* all_legal_moves as it would be without the test of the pieces' colour
all_legal_moves_any_colour(g, color, shortcut) ==
  remove_illegal_moves(g, AllPseudoMoves(g, W) \o AllPseudoMoves(g, B))

\* all_legal_moves as it would be if the shortcut returned what it gathered
\* without the test of the own king
all_legal_moves_unfiltered(g, color, shortcut) ==
  IF shortcut THEN [raised |-> FALSE, moves |-> AllPseudoMoves(g, color)]
  ELSE remove_illegal_moves(g, AllPseudoMoves(g, color))

all_legal_moves(g, color, shortcut) ==
  IF shortcut THEN AllLegalShortcut(g, color, 0, <<>>)
  ELSE remove_illegal_moves(g, AllPseudoMoves(g, color))

\* whether a move list (or nothing, when building it raised) has the move
ListedIn(move_list, wanted) ==
  IF move_list.raised THEN BRaise
  ELSE B3(\E k \in 1..Len(move_list.moves) : move_list.moves[k] \in wanted)

can_king_castle(g, side) ==
  LET index == BoardIndex(g.board, IF side = W THEN "K" ELSE "k") IN
  IF index = RaisedIdx THEN BRaise
  ELSE ListedIn(get_legal_moves(g, index), {OO, OOO})

(***************************************************************************)
(* Check, checkmate, stalemate                                             *)
(***************************************************************************)
is_check(g, side) ==
  LET king_index == BoardIndex(g.board, IF side = W THEN "K" ELSE "k") IN
  IF king_index = RaisedIdx THEN BRaise
  ELSE is_square_attacked(king_index, g.board, <<>>)

\* len(moves) == 0, for a move list that may have raised
NoMoves(move_list) ==
  IF move_list.raised THEN BRaise ELSE B3(Len(move_list.moves) = 0)

\* is_checkmate once is_check has answered chk
CheckmateGiven(g, side, chk) ==
  IF chk # BTrue THEN chk
  ELSE NoMoves(all_legal_moves(g, side, FALSE))

is_checkmate(g, side) == CheckmateGiven(g, side, is_check(g, side))

\* is_stalemate once is_check has answered chk
StalemateGiven(g, side, chk) ==
  IF chk = BRaise THEN BRaise
  ELSE IF chk = BTrue THEN BFalse
  ELSE NoMoves(all_legal_moves(g, side, TRUE))

is_stalemate(g, side) == StalemateGiven(g, side, is_check(g, side))

(***************************************************************************)
(* Chess.update_turn                                                       *)
(***************************************************************************)
AbsDiff(a, b) == IF a >= b THEN a - b ELSE b - a

\* history bookkeeping of update_turn (self.turn is still the mover)
HistoryAfter(g, move) ==
  IF g.turn = W THEN Append(g.history, <<move, <<>>>>)
  ELSE IF Len(g.history) = 0 THEN Append(g.history, <<<<>>, move>>)
  ELSE [g.history EXCEPT ![Len(g.history)] = <<g.history[Len(g.history)][1], move>>]

\* the clock and en-passant tail of update_turn; move carries its suffix
UpdateCounters(g, move, promoted) ==
  IF IsCastleToken(move)
  THEN [g |-> [g EXCEPT !.halfmove = g.halfmove + 1], raised |-> FALSE]
  ELSE IF Len(move) < 3 THEN [g |-> g, raised |-> TRUE]
  ELSE IF move[3] = "x"
  THEN [g |-> [g EXCEPT !.halfmove = 0], raised |-> FALSE]
  ELSE
    LET to_square == algebraic_to_board_index(Slice(move, 3, 5)) IN
    IF to_square < 0 THEN [g |-> g, raised |-> TRUE]
    ELSE IF g.board[to_square] \in {"P", "p"} \/ promoted
    THEN LET from_square == algebraic_to_board_index(Slice(move, 0, 2)) IN
         IF from_square < 0 THEN [g |-> [g EXCEPT !.halfmove = 0], raised |-> TRUE]
         ELSE [g |-> [g EXCEPT !.halfmove = 0,
                               !.enpassant =
                                 IF AbsDiff(from_square, to_square) = 16
                                 THEN board_index_to_algebraic((from_square + to_square) \div 2)
                                 ELSE DASH],
               raised |-> FALSE]
    ELSE [g |-> [g EXCEPT !.halfmove = g.halfmove + 1], raised |-> FALSE]

\* update_turn after its check / mate / stalemate block: g3 and text are the
\* state and the move text that block left
TurnTail(g3, text, promoted) ==
  LET next_turn == IF g3.turn = W THEN B ELSE W IN
  UpdateCounters(
    [g3 EXCEPT !.history = HistoryAfter(g3, text),
               !.turn = next_turn,
               !.fullmove = IF next_turn = W THEN g3.fullmove + 1 ELSE g3.fullmove],
    text, promoted)

\* the branch "if self.is_check(next_turn)", once is_checkmate answered cm
TurnInCheck(g2, move, promoted, cm) ==
  IF cm = BRaise THEN [g |-> g2, raised |-> TRUE]
  ELSE TurnTail(IF cm = BTrue
                THEN [g2 EXCEPT !.checkmate_flag = TRUE,
                                !.result = IF g2.turn = W THEN "1-0" ELSE "0-1",
                                !.game_over_flag = TRUE]
                ELSE g2,
                Append(move, IF cm = BTrue THEN "#" ELSE "+"), promoted)

\* the branch "elif self.is_stalemate(next_turn)", once it answered sm
TurnNotInCheck(g1, move, promoted, sm) ==
  IF sm = BRaise THEN [g |-> g1, raised |-> TRUE]
  ELSE TurnTail(IF sm = BTrue
                THEN [g1 EXCEPT !.stalemate_flag = TRUE,
                                !.result = "1/2-1/2",
                                !.game_over_flag = TRUE]
                ELSE g1,
                IF sm = BTrue THEN Append(move, "=") ELSE move, promoted)

\* update_turn once the flags are reset (g1) and is_check answered chk
TurnChecked(g1, move, promoted, next_turn, chk) ==
  IF chk = BRaise THEN [g |-> g1, raised |-> TRUE]
  ELSE IF chk = BTrue
  THEN TurnInCheck([g1 EXCEPT !.check_flag = TRUE], move, promoted,
                   is_checkmate([g1 EXCEPT !.check_flag = TRUE], next_turn))
  ELSE TurnNotInCheck(g1, move, promoted, is_stalemate(g1, next_turn))

update_turn(g, move, promoted) ==
  LET next_turn == IF g.turn = W THEN B ELSE W
      g1 == [g EXCEPT !.check_flag = FALSE, !.checkmate_flag = FALSE,
                      !.stalemate_flag = FALSE, !.game_over_flag = FALSE]
  IN TurnChecked(g1, move, promoted, next_turn, is_check(g1, next_turn))

(***************************************************************************)
(* Move application: perform_castle, perform_promotion, make_move          *)
(***************************************************************************)
\* perform_castle on the live board: side is self.turn.  The board is
\* rewritten first, then the two rights of the side are removed one by one;
\* a missing right raises with the board already rewritten.
perform_castle(g, move, side) ==
  LET white == side = W
      kingAt == BoardIndex(g.board, IF white THEN "K" ELSE "k")
      b1 == IF move = OO /\ white
            THEN [g.board EXCEPT ![6] = "K", ![5] = "R", ![4] = " ", ![7] = " "]
            ELSE IF move = OO
            THEN [g.board EXCEPT ![62] = "k", ![61] = "r", ![60] = " ", ![63] = " "]
            ELSE IF move = OOO /\ white
            THEN [g.board EXCEPT ![2] = "K", ![3] = "R", ![4] = " ", ![0] = " "]
            ELSE [g.board EXCEPT ![58] = "k", ![59] = "r", ![60] = " ", ![56] = " "]
      r1 == ListRemove(g.castling, IF white THEN "K" ELSE "k")
      r2 == ListRemove(r1.list, IF white THEN "Q" ELSE "q")
  IN
  IF kingAt = RaisedIdx THEN [g |-> g, raised |-> TRUE]
  ELSE IF r1.raised THEN [g |-> [g EXCEPT !.board = b1], raised |-> TRUE]
  ELSE IF r2.raised
  THEN [g |-> [g EXCEPT !.board = b1, !.castling = r1.list], raised |-> TRUE]
  ELSE [g |-> [g EXCEPT !.board = b1, !.castling = r2.list], raised |-> FALSE]

\* perform_promotion as it would be with the promoted piece always written
\* in upper case
perform_promotion_upper(g, move) ==
  LET m == RegexMatch(move, FALSE) IN
  IF ~m.matched THEN [g |-> g, raised |-> TRUE]
  ELSE
    LET from_square == algebraic_to_board_index(m.g1)
        to_square   == algebraic_to_board_index(m.g3)
        piece       == g.board[from_square]
    IN
    IF piece \notin {"P", "p"} THEN [g |-> g, raised |-> FALSE]
    ELSE IF Len(m.g4) < 2
    THEN [g |-> [g EXCEPT !.board[from_square] = " "], raised |-> TRUE]
    ELSE [g |-> [g EXCEPT !.board = [g.board EXCEPT
                     ![from_square] = " ",
                     ![to_square] = upper(m.g4[2])]],
          raised |-> FALSE]

\* perform_promotion on the live board; the origin is cleared before the
\* promotion group is read, so a missing or one-character group raises with
\* the pawn already removed
perform_promotion(g, move) ==
  LET m == RegexMatch(move, FALSE) IN
  IF ~m.matched THEN [g |-> g, raised |-> TRUE]
  ELSE
    LET from_square == algebraic_to_board_index(m.g1)
        to_square   == algebraic_to_board_index(m.g3)
        piece       == g.board[from_square]
        side        == IF isupper(piece) THEN W ELSE B
    IN
    IF piece \notin {"P", "p"} THEN [g |-> g, raised |-> FALSE]
    ELSE IF Len(m.g4) < 2
    THEN [g |-> [g EXCEPT !.board[from_square] = " "], raised |-> TRUE]
    ELSE [g |-> [g EXCEPT !.board = [g.board EXCEPT
                     ![from_square] = " ",
                     ![to_square] = IF side = W THEN upper(m.g4[2]) ELSE lower(m.g4[2])]],
          raised |-> FALSE]

check_regular_move(g, move, side) ==
  LET from_square == algebraic_to_board_index(Slice(move, 0, 2))
      to_square   == algebraic_to_board_index(Slice(move, 3, 5))
  IN
  IF from_square < 0 \/ to_square < 0 THEN BRaise
  ELSE ListedIn(get_legal_moves(g, from_square), {move})

check_move(g, move, side) ==
  IF move = OO THEN check_castle(g, IF side = W THEN 6 ELSE 62, side)
  ELSE IF move = OOO THEN check_castle(g, IF side = W THEN 2 ELSE 58, side)
  ELSE check_regular_move(g, move, side)

\* what make_move returns after update_turn: True, or the exception
Returned(u) == [g |-> u.g, ret |-> IF u.raised THEN "Raise" ELSE "True"]

\* the tail shared by the accepting branches of make_move, once the branch
\* has rewritten the board (a): self.enpassant = "-", update_turn, return True
Applied(a, move, promoted) ==
  IF a.raised THEN [g |-> a.g, ret |-> "Raise"]
  ELSE Returned(update_turn([a.g EXCEPT !.enpassant = DASH], move, promoted))

\* the board rewrite of the en-passant branch
EnPassantApplied(g, move, side) ==
  LET from_square == algebraic_to_board_index(Slice(move, 0, 2))
      to_square   == algebraic_to_board_index(Slice(move, 3, 5))
      epsq        == algebraic_to_board_index(g.enpassant)
      captured_square == IF side = W THEN epsq - 8 ELSE epsq + 8
  IN [g |-> [g EXCEPT !.board = [g.board EXCEPT
                        ![from_square] = " ",
                        ![to_square] = IF side = W THEN "P" ELSE "p",
                        ![PyIdx(captured_square)] = " "]],
      raised |-> FALSE]

\* the board rewrite of the regular branch
RegularApplied(g, move) ==
  LET from_square == algebraic_to_board_index(Slice(move, 0, 2))
      to_square   == algebraic_to_board_index(Slice(move, 3, 5))
  IN [g |-> [g EXCEPT !.board = [g.board EXCEPT
                        ![to_square] = g.board[from_square],
                        ![from_square] = " "]],
      raised |-> FALSE]

\* make_move once is_enpassant (ep), is_promotion (prom) and check_move (chk)
\* have answered; each is consulted only where the source reaches its call
MakeMoveGiven(g, move, side, ep, prom, chk) ==
  LET from_square == algebraic_to_board_index(Slice(move, 0, 2)) IN
  IF ~validate_notation(move) THEN [g |-> g, ret |-> "False"]
  ELSE IF ~IsCastleToken(move)
          /\ ( (isupper(g.board[from_square]) /\ side # W)
               \/ (islower(g.board[from_square]) /\ side # B) )
  THEN [g |-> g, ret |-> "False"]
  ELSE IF ep = BRaise THEN [g |-> g, ret |-> "Raise"]
  ELSE IF ep # BTrue /\ prom = BRaise THEN [g |-> g, ret |-> "Raise"]
  ELSE IF ep # BTrue /\ prom # BTrue /\ chk = BRaise THEN [g |-> g, ret |-> "Raise"]
  ELSE IF ep # BTrue /\ prom # BTrue /\ chk # BTrue THEN [g |-> g, ret |-> "False"]
  ELSE Applied(IF ep = BTrue THEN EnPassantApplied(g, move, side)
               ELSE IF prom = BTrue THEN perform_promotion(g, move)
               ELSE IF IsCastleToken(move) THEN perform_castle(g, move, g.turn)
               ELSE RegularApplied(g, move),
               move, ep # BTrue /\ prom = BTrue)

\* make_move(move, side): side <<>> stands for None.  The result is the game
\* after the call and what the call did: "True", "False" or "Raise".
make_move(g, move, side0) ==
  LET side == IF side0 = <<>> THEN g.turn ELSE side0 IN
  MakeMoveGiven(g, move, side, is_enpassant(g, move), is_promotion(g, move),
                check_move(g, move, side))

(***************************************************************************)
(* Construction: Chess(fen) and reset_board                                *)
(***************************************************************************)
FEN_STARTING_POSITION ==
  <<"r","n","b","q","k","b","n","r","/","p","p","p","p","p","p","p","p","/",
    "8","/","8","/","8","/","8","/",
    "P","P","P","P","P","P","P","P","/","R","N","B","Q","K","B","N","R",
    " ","w"," ","K","Q","k","q"," ","-"," ","0"," ","1">>

\* the class-level defaults of Chess, before __init__ runs set_fen
ChessDefaults ==
  [board |-> EmptyBoard, turn |-> W, castling |-> <<"K", "Q", "k", "q">>,
   enpassant |-> DASH, halfmove |-> 0, fullmove |-> 1, history |-> <<>>,
   result |-> "*", checkmate_flag |-> FALSE, stalemate_flag |-> FALSE,
   insufficient_material_flag |-> FALSE, check_flag |-> FALSE,
   game_over_flag |-> FALSE]

Chess(fen) == set_fen(ChessDefaults, fen).g

reset_board(g) ==
  [set_fen(g, FEN_STARTING_POSITION).g EXCEPT !.history = <<>>]

(***************************************************************************)
(* The class Chess and its objects (chess.py, lines 309-337).  The class   *)
(* body binds board, castling and history to lists; set_fen, called by     *)
(* __init__, binds every field but history and result on the object, and   *)
(* result is a string.  An object on which history was never bound reads   *)
(* and appends to the list of the class.                                   *)
(***************************************************************************)
\* the Chess objects of one run
Instances == {1, 2}

\* Chess(fen): set_fen binds the fields on the new object; history is left
\* to the class
NewChess(fen) ==
  [made |-> TRUE, own_history |-> FALSE, g |-> Chess(fen)]

\* no object made yet, the class as the class body leaves it
InitHeap ==
  [class_history |-> <<>>,
   inst |-> [i \in Instances |->
               [made |-> FALSE, own_history |-> FALSE, g |-> ChessDefaults]],
   on |-> 0, made |-> 0]

\* the fields an object shows: self.history is the list of the class unless
\* one was bound on the object
ViewOf(h, i) ==
  [h.inst[i].g EXCEPT !.history = IF h.inst[i].own_history THEN @
                                  ELSE h.class_history]

\* the heap after a method has run on object i and left it as g: appends to
\* a history that is the list of the class are appends to that list
Written(h, i, g) ==
  [h EXCEPT !.inst[i].g = g, !.on = i,
            !.class_history = IF h.inst[i].own_history THEN @ ELSE g.history]

\* reset_board binds a new empty history on the object
ResetWritten(h, i) ==
  [h EXCEPT !.inst[i].g = reset_board(ViewOf(h, i)),
            !.inst[i].own_history = TRUE, !.on = i]

(***************************************************************************)
(* The Rule Engine as a state machine: one Chess object, driven through    *)
(* its public operations                                                   *)
(***************************************************************************)
\* number of make_move calls in one run
MaxCalls == 2

\* r3k2r/8/8/8/8/8/8/R3K2R w KQkq - 0 1
\* kings and rooks only: every castling is available
FEN_ROOKS ==
  <<"r","3","k","2","r","/","8","/","8","/","8","/","8","/","8","/","8","/",
    "R","3","K","2","R"," ","w"," ","K","Q","k","q"," ","-"," ","0"," ",
    "1">>

\* r3k2r/8/8/8/8/8/6p1/R3K2R w KQkq - 0 1
\* a black pawn on g2 attacks f1 and h1
FEN_PAWN_G2 ==
  <<"r","3","k","2","r","/","8","/","8","/","8","/","8","/","8","/","6","p",
    "1","/","R","3","K","2","R"," ","w"," ","K","Q","k","q"," ","-"," ","0",
    " ","1">>

\* 8/8/8/2k5/2pP4/8/B7/4K3 b - d3 0 3
\* tests/test_chess.py test_enpassant_moves: d2-d4 was just played
FEN_EN_PASSANT ==
  <<"8","/","8","/","8","/","2","k","5","/","2","p","P","4","/","8","/","B",
    "7","/","4","K","3"," ","b"," ","-"," ","d","3"," ","0"," ","3">>

\* 1b2k3/2P5/8/8/8/8/8/4K3 w - - 0 1
\* tests/test_chess.py test_promotion_moves: a pawn about to promote
FEN_PROMOTION ==
  <<"1","b","2","k","3","/","2","P","5","/","8","/","8","/","8","/","8","/",
    "8","/","4","K","3"," ","w"," ","-"," ","-"," ","0"," ","1">>

\* 8/8/k1P5/8/1P6/8/8/4K3 b - - 0 1
\* a white pawn on b4 attacks a5, next to the black king
FEN_PAWN_EDGE ==
  <<"8","/","8","/","k","1","P","5","/","8","/","1","P","6","/","8","/","8",
    "/","4","K","3"," ","b"," ","-"," ","-"," ","0"," ","1">>

\* 1b2k3/2P4R/8/8/8/8/8/4K3 w - - 0 1
\* one move before the position of tests/test_chess.py test_checkmate: c7-c8=Q mates
FEN_MATE_IN_ONE ==
  <<"1","b","2","k","3","/","2","P","4","R","/","8","/","8","/","8","/","8",
    "/","8","/","4","K","3"," ","w"," ","-"," ","-"," ","0"," ","1">>

\* 6k1/7R/8/8/8/8/5Q2/4K2R w - - 0 1
\* the position of tests/test_chess.py test_stalemate with white to move: a quiet move stalemates
FEN_STALEMATE_IN_ONE ==
  <<"6","k","1","/","7","R","/","8","/","8","/","8","/","8","/","5","Q","2",
    "/","4","K","2","R"," ","w"," ","-"," ","-"," ","0"," ","1">>

\* r3k2r/8/8/8/8/8/8/R3K2R w Kkq - 0 1
\* kings and rooks only: white has kept the king-side right alone
FEN_ONE_RIGHT ==
  <<"r","3","k","2","r","/","8","/","8","/","8","/","8","/","8","/","8","/",
    "R","3","K","2","R"," ","w"," ","K","k","q"," ","-"," ","0"," ","1">>

\* r4k1r/8/8/8/8/8/8/R3K2R w KQ - 0 1
\* the black king on f8: white's O-O puts the rook on f1 and gives check
FEN_CASTLE_CHECK ==
  <<"r","4","k","1","r","/","8","/","8","/","8","/","8","/","8","/","8","/",
    "R","3","K","2","R"," ","w"," ","K","Q"," ","-"," ","0"," ","1">>

\* 4k3/8/8/3pP3/8/8/8/4K3 w - d6 0 2
\* d7-d5 was just played next to the white pawn on e5
FEN_EN_PASSANT_WHITE ==
  <<"4","k","3","/","8","/","8","/","3","p","P","3","/","8","/","8","/","8",
    "/","4","K","3"," ","w"," ","-"," ","d","6"," ","0"," ","2">>

\* 4k3/8/8/3p4/8/3pP3/8/4K3 w - d6 0 2
\* d7-d5 was just played; a second black pawn stands on d3 next to the white
\* pawn on e3
FEN_EN_PASSANT_D3 ==
  <<"4","k","3","/","8","/","8","/","3","p","4","/","8","/","3","p","P","3",
    "/","8","/","4","K","3"," ","w"," ","-"," ","d","6"," ","0"," ","2">>

\* 4k3/8/8/8/8/7N/8/4K3 w - - 0 1
\* a white knight on h3, the a-file empty
FEN_KNIGHT_EDGE ==
  <<"4","k","3","/","8","/","8","/","8","/","8","/","7","N","/","8","/",
    "4","K","3"," ","w"," ","-"," ","-"," ","0"," ","1">>

Fixtures ==
  {FEN_STARTING_POSITION, FEN_ROOKS, FEN_PAWN_G2, FEN_EN_PASSANT,
   FEN_PROMOTION, FEN_PAWN_EDGE, FEN_MATE_IN_ONE, FEN_STALEMATE_IN_ONE,
   FEN_ONE_RIGHT, FEN_CASTLE_CHECK, FEN_EN_PASSANT_WHITE, FEN_EN_PASSANT_D3,
   FEN_KNIGHT_EDGE}

\* the notations handed to make_move
MoveInputs ==
  {
   \* from the starting position
   <<"e","2","-","e","4">>,  \* e2-e4
   <<"g","1","-","f","3">>,  \* g1-f3
   <<"d","7","-","d","5">>,  \* d7-d5
   \* castling, king and rook moves
   <<"O","-","O">>,  \* O-O
   <<"O","-","O","-","O">>,  \* O-O-O
   <<"h","1","-","h","2">>,  \* h1-h2
   <<"e","1","-","e","2">>,  \* e1-e2
   <<"e","8","-","e","7">>,  \* e8-e7
   <<"h","8","x","h","1">>,  \* h8xh1
   <<"a","1","x","a","8">>,  \* a1xa8
   <<"g","2","x","h","1","=","q">>,  \* g2xh1=q
   \* en passant and promotion
   <<"c","4","x","d","3","e",".","p",".">>,  \* c4xd3e.p.
   <<"c","5","x","d","4">>,  \* c5xd4
   <<"e","5","x","d","6","e",".","p",".">>,  \* e5xd6e.p.
   <<"e","3","x","d","4","e",".","p",".">>,  \* e3xd4e.p.
   <<"a","2","-","b","3">>,  \* a2-b3
   <<"c","7","-","c","8","=","Q">>,  \* c7-c8=Q
   <<"c","7","x","b","8","=","N">>,  \* c7xb8=N
   <<"e","8","-","d","7">>,  \* e8-d7
   \* king next to a pawn
   <<"a","6","-","a","5">>,  \* a6-a5
   <<"a","6","-","b","6">>,  \* a6-b6
   <<"b","4","-","b","5">>,  \* b4-b5
   \* notations that are legal moves in none of these positions
   <<"a","7","-","e","3">>,  \* a7-e3
   <<"c","4","-","d","3">>,  \* c4-d3
   <<"c","7","-","a","8","=","Q">>,  \* c7-a8=Q
   <<"c","6","-","c","8","=","Q">>,  \* c6-c8=Q
   <<"c","7","-","c","8">>,  \* c7-c8
   <<"e","2","-","e","5">>,  \* e2-e5
   \* strings that are not two squares
   <<"e","4">>,  \* e4
   <<"x","y","z">>  \* xyz
  }

\* the side argument of make_move: None, "w" or "b"
SideInputs == {<<>>, W, B}

\* the square whose legal-move list decides a notation: its first square,
\* or for a castling token the king of the side to move
SourceSquare(g, move) ==
  IF IsCastleToken(move)
  THEN BoardIndex(g.board, IF g.turn = W THEN "K" ELSE "k")
  ELSE algebraic_to_board_index(Slice(move, 0, 2))

\* move in self.get_legal_moves(source square)
InLegalMoves(g, move) ==
  LET src == SourceSquare(g, move) IN
  /\ src \in Squares
  /\ ListedIn(get_legal_moves(g, src), {move}) = BTrue

\* The wings a move gives up under the rules of chess: both wings when the
\* king moves or castles, one wing when its rook leaves the home corner or is
\* captured there.
WingsGivenUp(g, move) ==
  IF IsCastleToken(move)
  THEN (IF g.turn = W THEN {"K", "Q"} ELSE {"k", "q"})
  ELSE
    LET from == algebraic_to_board_index(Slice(move, 0, 2))
        to   == algebraic_to_board_index(Slice(move, 3, 5))
        cornerOf == [sq \in {0, 7, 56, 63} |->
                       CASE sq = 0 -> <<"R", "Q">> [] sq = 7 -> <<"R", "K">>
                         [] sq = 56 -> <<"r", "q">> [] OTHER -> <<"r", "k">>]
    IN
       (IF g.board[from] = "K" THEN {"K", "Q"} ELSE {})
    \cup (IF g.board[from] = "k" THEN {"k", "q"} ELSE {})
    \cup {cornerOf[sq][2] : sq \in {c \in {0, 7, 56, 63} :
                                      g.board[c] = cornerOf[c][1] /\ c \in {from, to}}}

NoCall ==
  [op |-> "init", ret |-> "None", move |-> <<>>, side |-> <<>>, legal |-> FALSE]

(***************************************************************************)
(* Physical Board Model (chessboard.py).  A 64-bit board state is the set   *)
(* of its set bit positions, 0 = least significant: & is intersection, | is *)
(* union, ^ INVERSE_MASK the complement, a non-zero test non-emptiness.     *)
(***************************************************************************)
Bits == 0..63

\* IO_EXPANDER_TILE: the bit of each of the 16 squares read by one expander
IO_EXPANDER_TILE == <<0, 1, 2, 3, 4, 5, 6, 7, 12, 13, 14, 15, 8, 9, 10, 11>>

\* IO_EXPANDER_SHIFT[j]
IO_EXPANDER_SHIFT(j) == 16 * j

\* 0xFFFF00000000FFFF
STARTING_POSITION == (0..15) \cup (48..63)
\* 0x60, 0x0C, 0x6000000000000000, 0x0C00000000000000
CASTLING_WHITE_KING == {5, 6}
CASTLING_WHITE_QUEEN == {2, 3}
CASTLING_BLACK_KING == {61, 62}
CASTLING_BLACK_QUEEN == {58, 59}

\* Python's None, where a square or a notation is expected; it is kept as the
\* text "%s" formats it to, which is no square and no notation
None == <<"N", "o", "n", "e">>

\* generate_board_coords: board_coords[square] shifted into place, i.e. the
\* key of board_coords_reverse for the square with this board index
CoordBit(index) ==
  IO_EXPANDER_TILE[(index % 16) + 1] + IO_EXPANDER_SHIFT(index \div 16)

\* read_board: the expanders report the occupied squares on their pins;
\* board_status collects the ports, bitboard holds one flag per board index
read_board(cb, occupied) ==
  [cb EXCEPT !.board_status = {CoordBit(sq) : sq \in occupied},
             !.bitboard = occupied]

\* convert_bitboard_to_int(self.bitboard): bit i is bitboard[i]
convert_bitboard_to_int(cb) == cb.bitboard

\* count_pieces: the number of 1 digits of bin(current_board)
count_pieces(current_board) == Cardinality(current_board)

\* coord_to_algebraic: the square of a one-bit coordinate, else None
coord_to_algebraic(coord) ==
  IF \E sq \in Squares : coord = {CoordBit(sq)}
  THEN board_index_to_algebraic(CHOOSE sq \in Squares : coord = {CoordBit(sq)})
  ELSE None

\* Chessboard.algebraic_to_board_index: NoneIdx where it returns None (not a
\* square, or the exception it swallows)
cb_algebraic_to_board_index(algebraic) ==
  IF Len(algebraic) = 2 /\ SeqIndex(FILE, lower(algebraic[1])) # 0
     /\ SeqIndex(RANK, algebraic[2]) # 0
  THEN (SeqIndex(RANK, algebraic[2]) - 1) * 8 + (SeqIndex(FILE, lower(algebraic[1])) - 1)
  ELSE NoneIdx

\* detect_move_positions: (old_pos, new_pos)
detect_move_positions(prev_state, new_state) ==
  <<coord_to_algebraic(prev_state \cap (Bits \ new_state)),
    coord_to_algebraic(new_state \cap (Bits \ prev_state))>>

\* detect_capture_move_positions: (capturing, captured)
detect_capture_move_positions(prev_state, capturing_state, captured_state) ==
  <<coord_to_algebraic(prev_state \cap (Bits \ capturing_state)),
    coord_to_algebraic(capturing_state \cap (Bits \ captured_state))>>

\* check_castling_positions(color, side, current_board); side None matches
\* no branch
check_castling_positions(color, side, current_board) ==
  \/ color = W /\ side = "K" /\ current_board \cap CASTLING_WHITE_KING # {}
  \/ color = W /\ side = "Q" /\ current_board \cap CASTLING_WHITE_QUEEN # {}
  \/ color = B /\ side = "K" /\ current_board \cap CASTLING_BLACK_KING # {}
  \/ color = B /\ side = "Q" /\ current_board \cap CASTLING_BLACK_QUEEN # {}

\* update_board_move(move): raises when move is not a tuple (None) or holds
\* something that is no square (the index is None)
update_board_move(cb, move) ==
  IF move = None THEN [cb |-> cb, raised |-> TRUE]
  ELSE
    LET start == cb_algebraic_to_board_index(move[1])
        end   == cb_algebraic_to_board_index(move[2])
    IN
    IF start = NoneIdx THEN [cb |-> cb, raised |-> TRUE]
    ELSE IF end = NoneIdx
    THEN [cb |-> [cb EXCEPT !.board[start] = " "], raised |-> TRUE]
    ELSE [cb |-> [cb EXCEPT !.board = [cb.board EXCEPT ![start] = " ",
                                                      ![end] = cb.board[start]]],
          raised |-> FALSE]

\* update_castling_move(color, side): any side but "K" takes the queen's wing
update_castling_move(cb, color, side) ==
  [cb EXCEPT !.board =
     IF color = W /\ side = "K"
     THEN [cb.board EXCEPT ![4] = " ", ![5] = "R", ![6] = "K", ![7] = " "]
     ELSE IF color = W
     THEN [cb.board EXCEPT ![0] = " ", ![1] = " ", ![2] = "K", ![3] = "R", ![4] = " "]
     ELSE IF side = "K"
     THEN [cb.board EXCEPT ![60] = " ", ![61] = "r", ![62] = "k", ![63] = " "]
     ELSE [cb.board EXCEPT ![56] = " ", ![57] = " ", ![58] = "k", ![59] = "r",
                           ![60] = " "]]

\* Chessboard.parse_fen: the placement field alone (split on one blank)
cb_parse_fen(cb, fen) ==
  [cb EXCEPT !.board = FenPlace(SplitOn(SplitOn(fen, " ")[1], "/"))]

\* Chessboard.reset_board
cb_reset_board(cb) == cb_parse_fen(cb, FEN_STARTING_POSITION)

(***************************************************************************)
(* Move Reconciler (app.py, event_listener) in the mode MODE_VS_HUMAN.      *)
(* A state of the loop is the record s: game (the Chess object), cb (the    *)
(* Chessboard object), rc (the locals of event_listener), the two interrupt *)
(* flags, where the loop stands (blocked in the set-up wait, raised), and   *)
(* what it did to the Rule Engine (call, calls).  Three history fields      *)
(* record what the sensors delivered: armed (potential_castle was set in    *)
(* the half-move attempt under way), seen (the snapshot delivered in this   *)
(* turn of the loop: its count of changed squares and whether a castling or *)
(* en-passant window was armed when it came) and returned (the last         *)
(* snapshot delivered since the game was started, fixed or moved on equals  *)
(* the baseline).                                                          *)
(***************************************************************************)
\* no snapshot delivered in this turn of the loop
NoDelivery == [delta |-> 0 - 1, window |-> FALSE]

\* "%s-%s" % move and "%sx%s" % move, for a pair of squares
FormatMove(move, sep) == move[1] \o <<sep>> \o move[2]

\* "=%s" % promotion_piece; a one-letter local that is None is kept as "None"
PromotionSuffix(promotion_piece) ==
  <<"=">> \o (IF promotion_piece = "None" THEN None ELSE <<promotion_piece>>)

\* the locals of event_listener when the loop is entered (lines 295-371)
InitLocals(board_status) ==
  [in_game_mode |-> FALSE, game_in_progress |-> FALSE,
   show_setup_message |-> FALSE, game_over_flag |-> FALSE,
   force_fix_board_flag |-> FALSE, fix_board_flag |-> FALSE,
   board_status |-> board_status, prev_board_status |-> board_status,
   pre_move_board_state |-> STARTING_POSITION,
   final_move_board_status |-> board_status,
   final_num_pieces |-> count_pieces(board_status),
   curr_pieces |-> count_pieces(board_status),
   final_move |-> <<None, None>>, move_notation |-> None,
   board_state_piece_lifted |-> {}, board_state_capturing_piece |-> {},
   board_state_captured_piece |-> {},
   legal_moves |-> <<>>, piece_identifier |-> "None", piece_coordinate |-> None,
   position_changed_flag |-> FALSE, move_complete_flag |-> FALSE,
   capture_flag |-> FALSE, piece_removed |-> FALSE,
   potential_castle |-> FALSE, is_castling |-> FALSE, castling_side |-> "None",
   finish_castling_flag |-> FALSE, castling_complete_flag |-> FALSE,
   potential_en_passant |-> FALSE, is_en_passant_move |-> FALSE,
   potential_promotion |-> FALSE, is_promoting |-> FALSE,
   promotion_piece |-> "None", promotion_complete_flag |-> FALSE,
   finish_promotion_select_flag |-> FALSE,
   \* white_clock.clock_running and black_clock.clock_running (chess_clock.py,
   \* start_clock 75-78, stop_clock 80-87), kept with the locals
   white_clock_running |-> FALSE, black_clock_running |-> FALSE]

\* the Chessboard object after __init__ (nothing read yet)
InitChessboard ==
  [board_status |-> STARTING_POSITION, bitboard |-> {},
   board |-> FenPlace(SplitOn(SplitOn(FEN_STARTING_POSITION, " ")[1], "/"))]

MODE_VS_CPU == 0
MODE_VS_HUMAN == 1

\* the locals of event_listener for the game against the CPU when the loop
\* starts (lines 317-323, 357), and the engine's connection: the lines
\* written by the engine and not read yet, what engine_response returned
\* last, and counters of the steps
InitUci ==
  [game_mode |-> MODE_VS_HUMAN, cpu_2p_remote_side |-> None,
   uci_player_wait_flag |-> FALSE, cpu_2p_remote_has_moved |-> TRUE,
   uci_move |-> None, reader |-> <<>>, response |-> None,
   timeouts |-> 0, written |-> 0, go |-> 0]

\* lines 951-954 and 1021-1024: after a confirmed move it is the CPU's turn
CpuAfterConfirm(u, confirmed, turn) ==
  IF confirmed /\ u.game_mode = MODE_VS_CPU /\ turn = u.cpu_2p_remote_side
  THEN [u EXCEPT !.uci_player_wait_flag = FALSE,
                 !.cpu_2p_remote_has_moved = FALSE]
  ELSE u

\* lines 1178-1183 and 1261-1266: the side to move is played by the remote
\* engine and the engine has chosen its move
RemoteToMove(s) ==
  /\ s.cpu.game_mode = MODE_VS_CPU
  /\ s.game.turn = s.cpu.cpu_2p_remote_side
  /\ s.cpu.uci_player_wait_flag /\ s.cpu.cpu_2p_remote_has_moved

\* the loop's state when event_listener has run up to "while True": the
\* board is read once and game = Chess(); around it the pieces on the board,
\* none in hand, and the clock buttons up
InitLoop(occupied) ==
  LET cb == read_board(InitChessboard, occupied) IN
  [game |-> Chess(FEN_STARTING_POSITION), cb |-> cb,
   rc |-> InitLocals(cb.board_status),
   io_expander_interrupt_flag |-> FALSE, button_interrupt_flag |-> FALSE,
   call |-> NoCall, calls |-> 0, raised |-> FALSE, blocked |-> FALSE,
   armed |-> FALSE, seen |-> NoDelivery, returned |-> FALSE,
   occupied |-> occupied, hand |-> 0,
   button_white |-> FALSE, button_black |-> FALSE, cpu |-> InitUci]

\* --- touch events (lines 394-684) ---------------------------------------
\* "Start game vs human": page 4, component 3
TouchStartHuman(s) ==
  [s EXCEPT !.returned = FALSE,
            !.rc.in_game_mode = TRUE, !.rc.game_in_progress = FALSE,
            !.rc.show_setup_message = FALSE]

\* "Start game vs CPU": page 16, component 2 or 15; the flags of the game
\* against the CPU are kept with the engine's connection (StartCpu below)
TouchStartCpu(s) ==
  [s EXCEPT !.returned = FALSE,
            !.rc.in_game_mode = TRUE, !.rc.game_in_progress = FALSE,
            !.rc.show_setup_message = FALSE]

\* "Fix board position": page 5, 6 or 7, component 6
TouchFixBoard(s) == [s EXCEPT !.rc.force_fix_board_flag = TRUE]

\* "Fix board position completed" as it would be with the recapture of the
\* baseline (prev_board_status = board_status) and the release of the
\* candidate (move_complete_flag, move_notation) left out
FixCompletedKeepsBaseline(s, cb) ==
  [s EXCEPT !.cb = cb, !.armed = FALSE, !.returned = FALSE,
            !.rc.fix_board_flag = FALSE, !.rc.force_fix_board_flag = FALSE,
            !.rc.board_status = cb.board_status,
            !.rc.castling_complete_flag = FALSE,
            !.rc.finish_castling_flag = FALSE,
            !.rc.potential_castle = FALSE, !.rc.is_castling = FALSE,
            !.rc.piece_removed = FALSE, !.rc.capture_flag = FALSE,
            !.rc.board_state_piece_lifted = {},
            !.rc.board_state_capturing_piece = {},
            !.rc.board_state_captured_piece = {},
            !.rc.curr_pieces = count_pieces(cb.board_status),
            !.rc.position_changed_flag = FALSE,
            !.rc.potential_promotion = FALSE, !.rc.is_promoting = FALSE,
            !.rc.promotion_complete_flag = FALSE,
            !.rc.finish_promotion_select_flag = FALSE,
            !.rc.white_clock_running = s.game.turn = W,
            !.rc.black_clock_running = s.game.turn # W]

\* "Fix board position completed": page 14, component 5
FixCompletedGiven(s, cb) ==
  [s EXCEPT !.cb = cb, !.armed = FALSE, !.returned = FALSE,
            !.rc.fix_board_flag = FALSE, !.rc.force_fix_board_flag = FALSE,
            !.rc.board_status = cb.board_status,
            !.rc.prev_board_status = cb.board_status,
            !.rc.castling_complete_flag = FALSE,
            !.rc.finish_castling_flag = FALSE,
            !.rc.potential_castle = FALSE, !.rc.is_castling = FALSE,
            !.rc.move_notation = None, !.rc.move_complete_flag = FALSE,
            !.rc.piece_removed = FALSE, !.rc.capture_flag = FALSE,
            !.rc.board_state_piece_lifted = {},
            !.rc.board_state_capturing_piece = {},
            !.rc.board_state_captured_piece = {},
            !.rc.curr_pieces = count_pieces(cb.board_status),
            !.rc.position_changed_flag = FALSE,
            !.rc.potential_promotion = FALSE, !.rc.is_promoting = FALSE,
            !.rc.promotion_complete_flag = FALSE,
            !.rc.finish_promotion_select_flag = FALSE,
            !.rc.white_clock_running = s.game.turn = W,
            !.rc.black_clock_running = s.game.turn # W]

TouchFixCompleted(s, occupied) ==
  FixCompletedGiven(s, read_board(cb_parse_fen(s.cb, get_fen(s.game)),
                                  occupied))

\* "Select promotion piece": page 19, component 2, 7, 8 or 9
TouchPromotion(s, piece) ==
  [s EXCEPT !.rc.promotion_piece = piece, !.rc.promotion_complete_flag = TRUE]

NoEvent == <<"none">>
TouchEvents ==
  {<<"start_human">>, <<"fix_board">>, <<"fix_completed">>,
   <<"promotion", "Q">>}

\* the block "if event == nextion.TOUCH"
TouchStage(s, event, occupied) ==
  CASE event[1] = "start_human" -> TouchStartHuman(s)
    [] event[1] = "start_cpu" -> TouchStartCpu(s)
    [] event[1] = "fix_board" -> TouchFixBoard(s)
    [] event[1] = "fix_completed" -> TouchFixCompleted(s, occupied)
    [] event[1] = "promotion" -> TouchPromotion(s, event[2])
    [] OTHER -> s

\* --- "Handle Fix Last Position Event" and "Handle fix board event" -------
FixShowStage(s, occupied) ==
  IF s.rc.force_fix_board_flag /\ ~s.rc.fix_board_flag
  THEN [s EXCEPT !.rc.fix_board_flag = TRUE, !.rc.force_fix_board_flag = FALSE,
                 !.rc.black_clock_running = FALSE,
                 !.rc.white_clock_running = FALSE,
                 !.cb = read_board(s.cb, occupied)]
  ELSE s

FixBoardEventStage(s, occupied) ==
  IF s.rc.in_game_mode /\ s.rc.fix_board_flag /\ s.io_expander_interrupt_flag
  THEN [s EXCEPT !.io_expander_interrupt_flag = FALSE,
                 !.cb = read_board(s.cb, occupied)]
  ELSE s

\* --- "Handle board setup" (lines 763-789): the loop inside waits until the
\* board reads STARTING_POSITION; until then the iteration does not go on
SetupStage(s, occupied) ==
  IF ~s.rc.game_in_progress /\ ~s.rc.show_setup_message
  THEN LET cb == read_board(s.cb, occupied)
           ready == cb.board_status = STARTING_POSITION
       IN
       [s EXCEPT !.blocked = ~ready,
                 !.cb = cb,
                 !.io_expander_interrupt_flag = FALSE,
                 !.rc.show_setup_message = TRUE,
                 !.rc.board_status = cb.board_status,
                 !.rc.prev_board_status =
                    IF ready THEN cb.board_status ELSE s.cb.board_status,
                 !.rc.move_complete_flag =
                    IF ready THEN FALSE ELSE s.rc.move_complete_flag]
  ELSE s

\* one more turn of the waiting loop, once the sensors have interrupted
SetupRead(s, occupied) ==
  LET cb == read_board(s.cb, occupied)
      ready == cb.board_status = STARTING_POSITION
  IN
  [s EXCEPT !.blocked = ~ready,
            !.cb = cb,
            !.io_expander_interrupt_flag = FALSE,
            !.rc.board_status = cb.board_status,
            !.rc.prev_board_status =
               IF ready THEN cb.board_status ELSE s.rc.prev_board_status,
            !.rc.move_complete_flag =
               IF ready THEN FALSE ELSE s.rc.move_complete_flag]

\* --- confirmation (lines 905-966 and 974-1035) --------------------------
\* Chessboard.update_board_en_passant(color, move, enpassant): not in the
\* sources; the mirror follows the capture: the pawn goes to the en-passant
\* target and the pawn it passed is removed
update_board_en_passant(cb, color, move, enpassant) ==
  LET start  == cb_algebraic_to_board_index(move[1])
      target == cb_algebraic_to_board_index(enpassant)
  IN
  IF start = NoneIdx \/ target = NoneIdx THEN [cb |-> cb, raised |-> TRUE]
  ELSE [cb |-> [cb EXCEPT !.board = [cb.board EXCEPT
                   ![start] = " ",
                   ![target] = cb.board[start],
                   ![PyIdx(IF color = W THEN target - 8 ELSE target + 8)] = " "]],
        raised |-> FALSE]

\* Chessboard.update_board_promotion(move, piece): not in the sources; the
\* mirror follows the promotion: the pawn leaves and the chosen piece, in the
\* pawn's colour, stands on the destination
update_board_promotion(cb, move, piece) ==
  LET start == cb_algebraic_to_board_index(move[1])
      end   == cb_algebraic_to_board_index(move[2])
  IN
  IF start = NoneIdx \/ end = NoneIdx \/ piece = "None"
  THEN [cb |-> cb, raised |-> TRUE]
  ELSE [cb |-> [cb EXCEPT !.board = [cb.board EXCEPT
                   ![start] = " ",
                   ![end] = IF isupper(cb.board[start]) THEN upper(piece)
                            ELSE lower(piece)]],
        raised |-> FALSE]

\* the branch of the confirmation that rewrites the mirror and settles the
\* notation: the outcome is the mirror, the notation and whether it raised
ConfirmBranch(s) ==
  LET rc == s.rc IN
  IF rc.potential_castle /\ rc.is_castling /\ rc.castling_complete_flag
  THEN [cb |-> update_castling_move(s.cb, s.game.turn, rc.castling_side),
        move_notation |-> IF rc.castling_side = "K" THEN OO ELSE OOO,
        kind |-> "castle", raised |-> FALSE]
  ELSE IF rc.potential_en_passant /\ rc.is_en_passant_move
  THEN LET u == update_board_en_passant(s.cb, s.game.turn, rc.final_move,
                                        s.game.enpassant)
       IN [cb |-> u.cb, move_notation |-> rc.move_notation,
           kind |-> "en_passant", raised |-> u.raised]
  ELSE IF rc.potential_promotion /\ rc.is_promoting /\ rc.promotion_complete_flag
  THEN LET u == update_board_promotion(s.cb, rc.final_move, rc.promotion_piece)
       IN [cb |-> u.cb,
           move_notation |->
             IF rc.final_move = None THEN None
             ELSE FormatMove(rc.final_move, IF rc.capture_flag THEN "x" ELSE "-")
                  \o PromotionSuffix(rc.promotion_piece),
           kind |-> "promotion",
           raised |-> u.raised \/ rc.final_move = None]
  ELSE LET u == update_board_move(s.cb, rc.final_move)
       IN [cb |-> u.cb, move_notation |-> rc.move_notation,
           kind |-> "move", raised |-> u.raised]

\* the record of a call game.make_move(move, side)
CallRecord(g, move, side, ret) ==
  [op |-> "make_move", ret |-> ret, move |-> move, side |-> side,
   legal |-> move # None /\ validate_notation(move) /\ InLegalMoves(g, move)]

\* the flags reset and the call of make_move, once the branch (b) is done and
\* make_move has answered (r); move_notation None raises inside make_move
ConfirmApply(s, b, r, side) ==
  LET castle == b.kind = "castle"
      promo  == b.kind = "promotion"
      ret    == IF b.move_notation = None THEN "Raise" ELSE r.ret
  IN
  [s EXCEPT
     !.cb = b.cb,
     !.game = IF b.move_notation = None THEN s.game ELSE r.g,
     !.call = CallRecord(s.game, b.move_notation, side, ret),
     !.calls = s.calls + 1,
     !.raised = ret = "Raise",
     !.armed = FALSE, !.returned = FALSE,
     !.cpu = CpuAfterConfirm(s.cpu, ret # "Raise",
                             IF b.move_notation = None THEN s.game.turn
                             ELSE r.g.turn),
     !.rc.move_notation = b.move_notation,
     !.rc.potential_castle = IF castle THEN FALSE ELSE s.rc.potential_castle,
     !.rc.is_castling = IF castle THEN FALSE ELSE s.rc.is_castling,
     !.rc.castling_side = IF castle THEN "None" ELSE s.rc.castling_side,
     !.rc.castling_complete_flag =
        IF castle THEN FALSE ELSE s.rc.castling_complete_flag,
     !.rc.finish_castling_flag =
        IF castle THEN FALSE ELSE s.rc.finish_castling_flag,
     !.rc.potential_promotion = IF promo THEN FALSE ELSE s.rc.potential_promotion,
     !.rc.is_promoting = IF promo THEN FALSE ELSE s.rc.is_promoting,
     !.rc.promotion_complete_flag =
        IF promo THEN FALSE ELSE s.rc.promotion_complete_flag,
     !.rc.finish_promotion_select_flag =
        IF promo THEN FALSE ELSE s.rc.finish_promotion_select_flag,
     !.rc.prev_board_status = s.rc.board_status,
     !.rc.piece_removed = FALSE, !.rc.capture_flag = FALSE,
     !.rc.board_state_piece_lifted = {},
     !.rc.board_state_capturing_piece = {},
     !.rc.board_state_captured_piece = {},
     !.rc.curr_pieces = s.rc.final_num_pieces,
     !.rc.position_changed_flag = FALSE,
     !.rc.final_move = <<None, None>>,
     !.rc.move_complete_flag = FALSE,
     !.rc.potential_en_passant = FALSE, !.rc.is_en_passant_move = FALSE,
     !.rc.white_clock_running =
        IF side = W THEN FALSE ELSE ret # "Raise" \/ s.rc.white_clock_running,
     !.rc.black_clock_running =
        IF side = W THEN ret # "Raise" \/ s.rc.black_clock_running ELSE FALSE,
     !.rc.pre_move_board_state =
        IF ret = "Raise" THEN s.rc.pre_move_board_state
        ELSE convert_bitboard_to_int(b.cb)]

\* the clock button of the side to move was pressed
ConfirmGiven(s, b, side) ==
  IF b.raised
  THEN [s EXCEPT !.cb = b.cb, !.raised = TRUE,
                 !.rc.white_clock_running =
                    IF side = W THEN FALSE ELSE s.rc.white_clock_running,
                 !.rc.black_clock_running =
                    IF side = W THEN s.rc.black_clock_running ELSE FALSE]
  ELSE ConfirmApply(s, b, make_move(s.game, b.move_notation, side), side)

\* the confirmation as it would be without the test of move_complete_flag
ConfirmWithoutTest(s, side) == ConfirmGiven(s, ConfirmBranch(s), side)

\* "Incomplete move" (lines 967-970, 1036-1039): the clock stopped at the
\* press is started again
IncompleteMove(s, side) ==
  [s EXCEPT !.rc.white_clock_running =
               IF side = W THEN TRUE ELSE s.rc.white_clock_running,
            !.rc.black_clock_running =
               IF side = W THEN s.rc.black_clock_running ELSE TRUE]

Confirm(s, side) ==
  IF s.rc.move_complete_flag THEN ConfirmGiven(s, ConfirmBranch(s), side)
  ELSE IncompleteMove(s, side)

\* --- sensor interrupt (lines 1055-1458) ---------------------------------
\* Chessboard.delta_board_positions(prev, current): not in the sources; the
\* number of squares on which the two snapshots differ
delta_board_positions(prev_state, new_state) ==
  Cardinality((prev_state \ new_state) \cup (new_state \ prev_state))

\* Chess.can_promote(coord): not in the sources; the pawn on the square has
\* a promotion among its legal moves
can_promote(g, coord) ==
  LET legal == get_legal_moves(g, algebraic_to_board_index(coord)) IN
  /\ ~legal.raised
  /\ \E k \in 1..Len(legal.moves) : SeqIndex(legal.moves[k], "=") # 0

\* Chessboard.get_castling_move(color, side): not in the sources; the king's
\* step of the castling, as a pair of squares
get_castling_move(color, side) ==
  IF color = W
  THEN <<<<"e", "1">>, IF side = "K" THEN <<"g", "1">> ELSE <<"c", "1">>>>
  ELSE <<<<"e", "8">>, IF side = "K" THEN <<"g", "8">> ELSE <<"c", "8">>>>

\* Chessboard.check_en_passant_positions(color, enpassant): not in the
\* sources; the target square is occupied and the passed pawn's square is
\* cleared in the snapshot just read
check_en_passant_positions(cb, color, enpassant) ==
  LET target == cb_algebraic_to_board_index(enpassant)
      victim == IF color = W THEN target - 8 ELSE target + 8
  IN
  /\ target # NoneIdx
  /\ victim \in Squares
  /\ CoordBit(target) \in cb.board_status
  /\ CoordBit(victim) \notin cb.board_status

\* lines 1075-1091: the count of changed squares decides on the forced fix
SensorDelta(s, delta_positions) ==
  LET rc == s.rc
      force ==
        \/ rc.force_fix_board_flag
        \/ /\ delta_positions > 1
           /\ ~(rc.potential_castle /\ delta_positions <= 4)
           /\ ~(delta_positions = 2 /\ rc.capture_flag)
           /\ ~(delta_positions = 3 /\ rc.potential_en_passant)
           /\ delta_positions > 2
  IN
  [s EXCEPT !.rc.force_fix_board_flag = force,
            !.rc.position_changed_flag =
               \/ rc.position_changed_flag
               \/ (rc.board_status # rc.prev_board_status /\ ~force)]

\* lines 1093-1124: the king stands on its castling square, the rook is
\* awaited
CastlingWait(s, delta_positions) ==
  LET rc == s.rc
      relifted == delta_positions = 1
      side == IF relifted THEN "None" ELSE rc.castling_side
      arrived == /\ delta_positions = 4
                 /\ check_castling_positions(s.game.turn, side, rc.board_status)
  IN
  IF ~(rc.position_changed_flag /\ ~rc.force_fix_board_flag
       /\ rc.finish_castling_flag)
  THEN s
  ELSE IF relifted
  THEN [s EXCEPT !.armed = TRUE,
                 !.rc.finish_castling_flag = FALSE,
                 !.rc.is_castling = FALSE, !.rc.castling_side = "None",
                 !.rc.potential_castle = TRUE,
                 !.rc.move_complete_flag = FALSE]
  ELSE IF arrived
  THEN [s EXCEPT !.rc.finish_castling_flag = TRUE,
                 !.rc.move_complete_flag = TRUE,
                 !.rc.castling_complete_flag = TRUE,
                 !.rc.final_move_board_status = rc.board_status,
                 !.rc.final_num_pieces = count_pieces(rc.board_status),
                 !.rc.final_move = get_castling_move(s.game.turn, side)]
  ELSE s

\* lines 1151-1205: the first piece leaves the board.  piece_identifier
\* in "Kk" asks the engine whether the side to move can castle, whoever's
\* king was lifted; castle, promote and legal are what the engine answered
FirstLiftGiven(s, piece_identifier, piece_status, castle, promote, legal) ==
  [s EXCEPT
     !.raised = castle = BRaise \/ legal.raised,
     !.armed = IF piece_identifier \in {"K", "k"} THEN castle = BTrue
               ELSE s.armed,
     !.rc.piece_identifier = piece_identifier,
     !.rc.potential_promotion =
        IF piece_status /\ piece_identifier \in {"P", "p"}
        THEN promote ELSE s.rc.potential_promotion,
     !.rc.potential_castle =
        IF castle = BRaise THEN s.rc.potential_castle ELSE castle = BTrue,
     !.rc.legal_moves =
        IF castle = BRaise \/ legal.raised THEN s.rc.legal_moves
        ELSE legal.moves,
     !.rc.potential_en_passant =
        IF castle = BRaise \/ legal.raised \/ ~piece_status \/ RemoteToMove(s)
        THEN s.rc.potential_en_passant ELSE s.game.enpassant # DASH]

\* the square is known: the engine is asked about the piece on it
FirstLiftOn(s, coord, index, piece_identifier, piece_status) ==
  FirstLiftGiven(s, piece_identifier, piece_status,
    IF piece_identifier \in {"K", "k"} THEN can_king_castle(s.game, s.game.turn)
    ELSE B3(s.rc.potential_castle),
    piece_status /\ piece_identifier \in {"P", "p"} /\ can_promote(s.game, coord),
    IF piece_status /\ ~RemoteToMove(s) THEN get_legal_moves(s.game, index)
    ELSE [raised |-> FALSE, moves |-> s.rc.legal_moves])

\* identify_piece raises when the lifted square is None
FirstLiftAt(s, coord) ==
  IF coord = None THEN [s EXCEPT !.raised = TRUE]
  ELSE FirstLiftOn(s, coord, cb_algebraic_to_board_index(coord),
                   s.game.board[algebraic_to_board_index(coord)],
                   is_friendly(s.game.board, cb_algebraic_to_board_index(coord),
                               s.game.turn))

FirstLift(s) ==
  FirstLiftAt([s EXCEPT
                 !.rc.piece_removed = TRUE,
                 !.rc.piece_coordinate =
                    coord_to_algebraic(s.rc.prev_board_status \ s.rc.board_status),
                 !.rc.board_state_piece_lifted = s.rc.board_status],
              coord_to_algebraic(s.rc.prev_board_status \ s.rc.board_status))

\* lines 1214-1243: a second piece leaves the board
SecondLift(s) ==
  LET rc == s.rc
      coord == coord_to_algebraic(rc.board_state_piece_lifted \ rc.board_status)
  IN
  IF coord = None
  THEN [s EXCEPT !.rc.piece_coordinate = coord,
                 !.rc.force_fix_board_flag = TRUE]
  ELSE IF is_friendly(s.game.board, cb_algebraic_to_board_index(coord),
                      s.game.turn)
  THEN [s EXCEPT !.rc.piece_coordinate = coord]
  ELSE [s EXCEPT !.rc.piece_coordinate = coord,
                 !.rc.capture_flag = TRUE,
                 !.rc.board_state_capturing_piece = rc.board_state_piece_lifted,
                 !.rc.board_state_captured_piece = rc.board_status]

\* lines 1133-1243: "if num_pieces < curr_pieces"
LiftStage(s, num_pieces) ==
  LET rc == s.rc
      gone == rc.curr_pieces - num_pieces
  IN
  IF num_pieces >= rc.curr_pieces THEN s
  ELSE IF gone = 1 /\ rc.move_complete_flag /\ ~rc.capture_flag
  THEN [s EXCEPT !.rc.piece_coordinate =
          coord_to_algebraic(rc.final_move_board_status \ rc.board_status)]
  ELSE IF gone = 1 /\ ~rc.capture_flag /\ ~rc.move_complete_flag
  THEN FirstLift(s)
  ELSE IF gone = 2 /\ rc.move_complete_flag /\ rc.capture_flag
  THEN [s EXCEPT !.rc.piece_coordinate =
          coord_to_algebraic(rc.final_move_board_status \ rc.board_status)]
  ELSE IF gone = 2 THEN SecondLift(s)
  ELSE s

\* move[1] in ["g1", "g8", "c1", "c8"], and the wing it stands for
CastlingSquares == {<<"g", "1">>, <<"g", "8">>, <<"c", "1">>, <<"c", "8">>}
KingsideSquares == {<<"g", "1">>, <<"g", "8">>}

\* lines 1258-1390: as many pieces as before stand on other squares.  The
\* outcome of the validation: is_legal_move, the notation, and the castling
\* and promotion locals it sets on the way; prom and can are what
\* is_promotion and can_king_castle answered
MoveValidationGiven(s, move, king, prom, can) ==
  LET rc == s.rc
      plain == FormatMove(move, "-")
      promoting == prom = BTrue /\ ~rc.finish_promotion_select_flag
      listed == \E k \in 1..Len(rc.legal_moves) : rc.legal_moves[k] = plain
      wing == king /\ can = BTrue /\ move[2] \in CastlingSquares
      castling_side ==
        IF ~king THEN rc.castling_side
        ELSE IF wing THEN (IF move[2] \in KingsideSquares THEN "K" ELSE "Q")
        ELSE "None"
      in_castle_position ==
        king /\ check_castling_positions(s.game.turn, castling_side,
                                         rc.board_status)
  IN
  [raised |-> prom = BRaise \/ can = BRaise,
   move |-> move,
   move_notation |->
     IF promoting THEN plain \o PromotionSuffix(rc.promotion_piece) ELSE plain,
   promoting |-> promoting,
   king |-> king, wing |-> wing, castling_side |-> castling_side,
   is_legal_move |->
     IF king /\ in_castle_position THEN TRUE
     ELSE IF king /\ can # BTrue THEN FALSE
     ELSE promoting \/ listed]

\* lines 1261-1303: the side to move is the remote engine's; the square the
\* piece was put on is compared with uci_move[2:] (uci_move None raises)
RemoteValidationGiven(s, move, king, can) ==
  LET rc == s.rc
      uci_move == s.cpu.uci_move
      matches == uci_move # None /\ Slice(uci_move, 2, Len(uci_move)) = move[2]
      wing == king /\ can = BTrue /\ move[2] \in CastlingSquares
      castling_side ==
        IF ~king THEN rc.castling_side
        ELSE IF wing THEN (IF move[2] \in KingsideSquares THEN "K" ELSE "Q")
        ELSE "None"
      in_castle_position ==
        king /\ check_castling_positions(s.game.turn, castling_side,
                                         rc.board_status)
  IN
  [raised |-> can = BRaise
              \/ (uci_move = None /\ ~(king /\ move[2] \in CastlingSquares)),
   move |-> move,
   move_notation |-> rc.move_notation,
   promoting |-> FALSE,
   king |-> king, wing |-> wing, castling_side |-> castling_side,
   is_legal_move |->
     IF king /\ in_castle_position THEN TRUE
     ELSE IF king /\ move[2] \in CastlingSquares THEN FALSE
     ELSE matches]

MoveValidationOf(s, move, pawn, king) ==
  IF RemoteToMove(s)
  THEN RemoteValidationGiven(s, move, king,
         IF king THEN can_king_castle(s.game, s.game.turn) ELSE BFalse)
  ELSE
  MoveValidationGiven(s, move, king,
    IF pawn THEN is_promotion(s.game, FormatMove(move, "-")) ELSE BFalse,
    IF king THEN can_king_castle(s.game, s.game.turn) ELSE BFalse)

MoveValidation(s) ==
  MoveValidationOf(s,
    detect_move_positions(s.rc.prev_board_status, s.rc.board_status),
    s.rc.potential_promotion /\ s.rc.piece_identifier \in {"P", "p"},
    s.rc.potential_castle /\ s.rc.piece_identifier \in {"K", "k"})

\* the locals after the validation, before "if is_legal_move"
MoveValidated(s, v) ==
  [s EXCEPT
     !.raised = v.raised,
     !.rc.move_notation = v.move_notation,
     !.rc.is_promoting = s.rc.is_promoting \/ v.promoting,
     !.rc.promotion_complete_flag =
        IF v.promoting THEN FALSE ELSE s.rc.promotion_complete_flag,
     !.rc.finish_promotion_select_flag =
        s.rc.finish_promotion_select_flag \/ v.promoting,
     !.rc.castling_side = IF v.raised THEN s.rc.castling_side ELSE v.castling_side,
     !.rc.is_castling = s.rc.is_castling \/ (~v.raised /\ v.wing),
     !.rc.castling_complete_flag =
        IF ~v.raised /\ v.wing THEN FALSE ELSE s.rc.castling_complete_flag]

\* "if is_legal_move": the king's step of a castling waits for the rook,
\* anything else becomes the candidate
MoveAccepted(s, move, num_pieces) ==
  LET rc == s.rc IN
  IF rc.potential_castle /\ rc.is_castling /\ ~rc.castling_complete_flag
     /\ ~rc.finish_castling_flag
  THEN IF check_castling_positions(s.game.turn, rc.castling_side, rc.board_status)
       THEN [s EXCEPT
               !.rc.castling_complete_flag = FALSE,
               !.rc.finish_castling_flag = TRUE,
               !.rc.move_notation =
                  IF s.game.turn = W
                  THEN (IF rc.castling_side = "K" THEN <<"h","1","-","f","1">>
                        ELSE <<"a","1","-","d","1">>)
                  ELSE (IF rc.castling_side = "K" THEN <<"h","8","-","f","8">>
                        ELSE <<"a","8","-","d","8">>)]
       ELSE s
  ELSE [s EXCEPT
          !.rc.move_complete_flag = TRUE,
          !.rc.move_notation =
             IF rc.is_promoting /\ rc.promotion_complete_flag
             THEN FormatMove(move, "-") \o PromotionSuffix(rc.promotion_piece)
             ELSE FormatMove(move, "-"),
          !.rc.final_move_board_status = rc.board_status,
          !.rc.final_num_pieces = num_pieces,
          !.rc.final_move = move]

MoveDecided(s, v, num_pieces) ==
  IF v.raised \/ ~v.is_legal_move THEN MoveValidated(s, v)
  ELSE MoveAccepted(MoveValidated(s, v), v.move, num_pieces)

MoveBranch(s, num_pieces) == MoveDecided(s, MoveValidation(s), num_pieces)

\* lines 1393-1431: the capturing piece stands where the captured one stood
CaptureGiven(s, move, pawn, prom, num_pieces) ==
  LET rc == s.rc
      plain == FormatMove(move, "x")
      promoting == prom = BTrue /\ ~rc.finish_promotion_select_flag
      passing == /\ ~pawn /\ rc.potential_en_passant
                 /\ check_en_passant_positions(s.cb, s.game.turn,
                                               s.game.enpassant)
  IN
  IF prom = BRaise THEN [s EXCEPT !.raised = TRUE, !.rc.move_notation = plain]
  ELSE
  [s EXCEPT
     !.rc.move_notation =
        IF promoting THEN plain \o PromotionSuffix(rc.promotion_piece)
        ELSE IF passing
        THEN move[1] \o <<"x">> \o s.game.enpassant \o EP_SUFFIX
        ELSE plain,
     !.rc.is_promoting = rc.is_promoting \/ promoting,
     !.rc.promotion_complete_flag =
        IF promoting THEN FALSE ELSE rc.promotion_complete_flag,
     !.rc.finish_promotion_select_flag =
        rc.finish_promotion_select_flag \/ promoting,
     !.rc.is_en_passant_move = rc.is_en_passant_move \/ passing,
     !.rc.final_move_board_status = rc.board_status,
     !.rc.final_num_pieces = num_pieces,
     !.rc.final_move = move,
     !.rc.move_complete_flag = TRUE]

CaptureOf(s, move, pawn, num_pieces) ==
  CaptureGiven(s, move, pawn,
    IF pawn THEN is_promotion(s.game, FormatMove(move, "x")) ELSE BFalse,
    num_pieces)

CaptureBranch(s, num_pieces) ==
  CaptureOf(s,
    detect_capture_move_positions(s.rc.prev_board_status,
      s.rc.board_state_capturing_piece, s.rc.board_state_captured_piece),
    s.rc.potential_promotion /\ s.rc.piece_identifier \in {"P", "p"},
    num_pieces)

\* lines 1432-1458: the snapshot is the one before the sequence again
TakeBack(s, num_pieces) ==
  [s EXCEPT
     !.armed = FALSE,
     !.rc.move_complete_flag = FALSE,
     !.rc.final_move_board_status = s.rc.board_status,
     !.rc.final_num_pieces = num_pieces,
     !.rc.final_move = None, !.rc.move_notation = None,
     !.rc.piece_removed = FALSE, !.rc.capture_flag = FALSE,
     !.rc.board_state_piece_lifted = {},
     !.rc.board_state_capturing_piece = {},
     !.rc.board_state_captured_piece = {},
     !.rc.curr_pieces = num_pieces,
     !.rc.position_changed_flag = FALSE,
     !.rc.potential_castle = FALSE, !.rc.is_castling = FALSE]

\* lines 1256-1458: what the pieces left on the board amount to
PlaceStage(t, num_pieces) ==
  LET moved == t.rc.board_status # t.rc.prev_board_status
      piece_diff == num_pieces - t.rc.curr_pieces
  IN
  IF t.raised THEN t
  ELSE IF moved /\ piece_diff = 0 THEN MoveBranch(t, num_pieces)
  ELSE IF moved /\ piece_diff = 0 - 1 /\ t.rc.capture_flag /\ t.rc.piece_removed
  THEN CaptureBranch(t, num_pieces)
  ELSE IF ~moved THEN TakeBack(t, num_pieces)
  ELSE t

\* lines 1126-1458: the snapshot is reconciled, unless a forced fix, a
\* castling awaiting its rook or a promotion is under way
SensorMain(s) ==
  IF ~(s.rc.position_changed_flag /\ ~s.rc.force_fix_board_flag
       /\ ~s.rc.finish_castling_flag /\ ~s.rc.is_promoting)
  THEN s
  ELSE PlaceStage(LiftStage(s, count_pieces(s.rc.board_status)),
                  count_pieces(s.rc.board_status))

\* lines 1055-1458: "if io_expander_interrupt_flag and game_in_progress"
\* the sensor block as it would be if every snapshot read became the
\* baseline at once (prev_board_status = board_status at the end of the block)
SensorStageMovesBaseline(s, occupied) ==
  IF s.io_expander_interrupt_flag /\ s.rc.game_in_progress
  THEN LET cb == read_board(s.cb, occupied)
           delta_positions ==
             delta_board_positions(s.rc.prev_board_status, cb.board_status)
           t == [s EXCEPT !.io_expander_interrupt_flag = FALSE, !.cb = cb,
                          !.rc.board_status = cb.board_status,
                          !.seen = [delta |-> delta_positions,
                                    window |-> s.armed
                                               \/ s.rc.potential_en_passant],
                          !.returned = delta_positions = 0]
       IN [SensorMain(CastlingWait(SensorDelta(t, delta_positions),
                                   delta_positions))
             EXCEPT !.rc.prev_board_status = cb.board_status]
  ELSE s

SensorStage(s, occupied) ==
  IF s.io_expander_interrupt_flag /\ s.rc.game_in_progress
  THEN LET cb == read_board(s.cb, occupied)
           delta_positions ==
             delta_board_positions(s.rc.prev_board_status, cb.board_status)
           t == [s EXCEPT !.io_expander_interrupt_flag = FALSE, !.cb = cb,
                          !.rc.board_status = cb.board_status,
                          !.seen = [delta |-> delta_positions,
                                    window |-> s.armed
                                               \/ s.rc.potential_en_passant],
                          !.returned = delta_positions = 0]
       IN SensorMain(CastlingWait(SensorDelta(t, delta_positions),
                                  delta_positions))
  ELSE s

\* --- clock buttons (lines 845-1042); a pressed button reads LOW ---------
\* both buttons during a game, or black's button before one: the board is
\* taken as set up, and black's button alone starts the game
ButtonReset(s, white, black, occupied) ==
  LET cb == read_board(cb_reset_board(s.cb), occupied)
      start == black /\ ~white
  IN
  [s EXCEPT
     !.cb = cb, !.armed = FALSE, !.returned = FALSE,
     !.game = IF start THEN reset_board(s.game) ELSE s.game,
     !.rc.game_in_progress =
        IF start THEN TRUE
        ELSE IF white /\ black THEN FALSE ELSE s.rc.game_in_progress,
     !.rc.show_setup_message =
        IF white /\ black THEN FALSE ELSE s.rc.show_setup_message,
     !.rc.game_over_flag = IF start THEN FALSE ELSE s.rc.game_over_flag,
     !.rc.white_clock_running =
        IF start THEN TRUE ELSE s.rc.white_clock_running,
     !.rc.black_clock_running =
        IF start THEN FALSE ELSE s.rc.black_clock_running,
     !.rc.piece_removed = FALSE, !.rc.capture_flag = FALSE,
     !.rc.board_state_piece_lifted = {},
     !.rc.board_state_capturing_piece = {},
     !.rc.board_state_captured_piece = {},
     !.rc.position_changed_flag = FALSE,
     !.rc.board_status = cb.board_status,
     !.rc.prev_board_status = cb.board_status,
     !.rc.curr_pieces = count_pieces(cb.board_status)]

ButtonStage(s, white, black, occupied) ==
  LET t == [s EXCEPT !.button_interrupt_flag = FALSE] IN
  IF ~s.button_interrupt_flag THEN s
  ELSE IF (white /\ black /\ s.rc.game_in_progress)
          \/ (black /\ ~s.rc.game_in_progress)
  THEN ButtonReset(t, white, black, occupied)
  ELSE IF ~s.rc.game_in_progress THEN t
  ELSE IF (white /\ s.game.turn = W) \/ (black /\ s.game.turn = B)
  THEN Confirm(t, s.game.turn)
  ELSE t

\* --- end of game (lines 1460-1517); the clocks are set long enough not to
\* run out
GameOverStage(s) ==
  IF s.rc.game_in_progress /\ (s.game.checkmate_flag \/ s.game.stalemate_flag)
  THEN [s EXCEPT !.rc.game_in_progress = FALSE, !.rc.game_over_flag = TRUE]
  ELSE s

\* --- one turn of "while True" -------------------------------------------
\* the game logic after the board set-up: buttons, sensors, end of game; an
\* exception leaves the loop where it is raised
AfterSensor(t) == IF t.raised THEN t ELSE GameOverStage(t)

AfterButton(b, occupied) ==
  AfterSensor(IF b.raised THEN b ELSE SensorStage(b, occupied))

GameStages(s, white, black, occupied) ==
  AfterButton(ButtonStage(s, white, black, occupied), occupied)

AfterSetup(u, white, black, occupied) ==
  IF u.blocked THEN u ELSE GameStages(u, white, black, occupied)

\* f is the state after the touch event and the fix-board blocks; a loop
\* that stands in the waiting loop of the board set-up goes on from there
TurnGiven(s, f, white, black, occupied) ==
  IF ~s.blocked /\ ~(f.rc.in_game_mode /\ ~f.rc.fix_board_flag) THEN f
  ELSE AfterSetup(IF s.blocked THEN SetupRead(s, occupied)
                  ELSE SetupStage(f, occupied),
                  white, black, occupied)

EventLoopFrom(s, event, white, black, occupied) ==
  TurnGiven(s, FixBoardEventStage(FixShowStage(TouchStage(s, event, occupied),
                                               occupied), occupied),
            white, black, occupied)

EventLoop(s, event, white, black, occupied) ==
  EventLoopFrom([s EXCEPT !.seen = NoDelivery], event, white, black, occupied)

(***************************************************************************)
(* The remote engine (uci.py) and the block "Handle CPU move" of the loop  *)
(* (app.py, lines 792-841).                                                *)
(***************************************************************************)
\* str.startswith
startswith(s, word) == Len(s) >= Len(word) /\ SubSeq(s, 1, Len(word)) = word

Whitespace == {" ", "\n", "\r", "\t"}

\* str.strip
RECURSIVE lstrip(_)
lstrip(s) ==
  IF Len(s) > 0 /\ Head(s) \in Whitespace THEN lstrip(Tail(s)) ELSE s

RECURSIVE rstrip(_)
rstrip(s) ==
  IF Len(s) > 0 /\ s[Len(s)] \in Whitespace
  THEN rstrip(SubSeq(s, 1, Len(s) - 1)) ELSE s

strip(s) == rstrip(lstrip(s))

\* the words the loop waits for: ["info", "bestmove"]
MATCH_STRING ==
  <<<<"i", "n", "f", "o">>, <<"b", "e", "s", "t", "m", "o", "v", "e">>>>

\* the lines the engine writes while it thinks: an empty line, "readyok" and
\* "info depth 1"
LINE_EMPTY == <<"\n">>
LINE_READYOK == <<"r", "e", "a", "d", "y", "o", "k", "\n">>
LINE_INFO == <<"i", "n", "f", "o", " ", "d", "e", "p", "t", "h", " ", "1", "\n">>
EngineLines == {LINE_EMPTY, LINE_READYOK, LINE_INFO}

\* "Start game vs CPU" (lines 404-448), component 15: the CPU plays white;
\* UCI.start has had its "uciok" and "readyok"
StartCpu(u, side) ==
  [u EXCEPT !.game_mode = MODE_VS_CPU, !.cpu_2p_remote_side = side,
            !.uci_player_wait_flag = FALSE, !.cpu_2p_remote_has_moved = TRUE]

\* UCI.engine_response, one pass of its "while True" (lines 171-181): the
\* line read within the timeout, or None at the timeout; the pass returns
\* the line when it starts with one of the words and goes round again
\* otherwise. Without words to match (lines 182-189) the one read returns.
EngineResponsePass(reader, match_string) ==
  LET timeout == Len(reader) = 0
      clean_response == IF timeout THEN None ELSE strip(Head(reader))
      truthy == ~timeout /\ Len(clean_response) > 0
  IN
  [timeout |-> timeout,
   reader |-> IF timeout THEN reader ELSE Tail(reader),
   clean_response |-> clean_response,
   returns |->
     IF Len(match_string) > 0
     THEN truthy /\ \E i \in DOMAIN match_string :
                      startswith(clean_response, match_string[i])
     ELSE TRUE]

\* lines 794-805: the position is sent to the engine with "go"
CpuGo(u, turn) ==
  IF turn = u.cpu_2p_remote_side /\ ~u.uci_player_wait_flag
  THEN [u EXCEPT !.uci_player_wait_flag = TRUE,
                 !.cpu_2p_remote_has_moved = FALSE, !.go = @ + 1]
  ELSE u

\* line 806: the loop polls the engine
CpuPolls(u, turn) ==
  /\ turn = u.cpu_2p_remote_side
  /\ u.uci_player_wait_flag /\ ~u.cpu_2p_remote_has_moved

\* lines 808-839: what the loop does with the response
CpuResponse(u, response) ==
  IF response = None THEN [u EXCEPT !.uci_player_wait_flag = FALSE]
  ELSE IF startswith(response, MATCH_STRING[2])
  THEN [u EXCEPT !.cpu_2p_remote_has_moved = TRUE,
                 !.uci_move = IF Len(SplitOn(response, " ")) > 1
                              THEN SplitOn(response, " ")[2] ELSE None]
  ELSE u

\* the turn of the loop up to the block "Handle CPU move": the touch event,
\* the fix-board blocks and the board set-up; game_logic tells whether the
\* turn goes on into the game logic
TurnHeadResult(u, reaches) == [u |-> u, game_logic |-> reaches /\ ~u.blocked]

TurnHeadGiven(s, f, occupied) ==
  IF ~s.blocked /\ ~(f.rc.in_game_mode /\ ~f.rc.fix_board_flag)
  THEN TurnHeadResult(f, FALSE)
  ELSE TurnHeadResult(IF s.blocked THEN SetupRead(s, occupied)
                      ELSE SetupStage(f, occupied), TRUE)

TurnHead(s, event, occupied) ==
  TurnHeadGiven(s, FixBoardEventStage(FixShowStage(
                     TouchStage([s EXCEPT !.seen = NoDelivery], event, occupied),
                     occupied), occupied), occupied)

(***************************************************************************)
(* The program as a state machine: the Chess object, the Chessboard object *)
(* and event_listener's loop, and around them the board, the hands and the  *)
(* clock buttons.                                                          *)
(***************************************************************************)
\* pieces lifted or put down in one run
MaxEvents == 6
\* clock buttons pressed in one run
MaxPresses == 1
\* touch events in one run
MaxTouches == 1
\* pieces held off the board at one time
MaxHand == 2
\* the squares the hands lift from and place on: e1, f1, g1, c6
HandSquares == {4, 5, 6, 42}

VARIABLES
  game,   \* the Chess object's fields
  last,   \* the last operation invoked on it and what it returned
  calls,  \* make_move calls so far
  lost,   \* the castling wings (K, Q, k, q) given up by the moves made so far
  chessboard,  \* the Chessboard object's fields
  locals,      \* the locals of event_listener
  io_expander_interrupt_flag,  \* set by io_expander_interrupt
  button_interrupt_flag,       \* set by the clock buttons' callbacks
  blocked,   \* the loop waits for the starting position (lines 774-783)
  raised,    \* an exception has left the loop
  armed, seen, returned,  \* what the sensors delivered (history)
  occupied,  \* the squares a piece stands on
  hand,      \* pieces held off the board
  button_white, button_black,  \* the clock buttons held down
  events,    \* pieces lifted or put down so far
  presses,   \* clock buttons pressed so far
  touches,   \* touch events so far
  uci,       \* the game against the CPU and the engine's connection
  pc,        \* where event_listener stands: "loop" between two turns,
             \* "engine_response" inside the poll of the engine,
             \* "read_board" and "fix_read_board" between the clearing of
             \* io_expander_interrupt_flag and the read of the board
  heap       \* the class Chess and the Chess objects made from it: the
             \* class-level history list and, for each object, the fields
             \* set_fen binds on it and whether history is bound on it

\* what a turn of the loop, a hand or a finger may change besides the game
loopvars ==
  <<chessboard, locals, io_expander_interrupt_flag, button_interrupt_flag,
    blocked, raised, armed, seen, returned, occupied, hand, button_white,
    button_black>>

appvars == <<loopvars, events, presses, touches, uci, pc>>

vars == <<game, last, calls, lost, appvars, heap>>

\* the squares a piece stands on in a position
OccupiedOf(g) == {sq \in Squares : g.board[sq] # " "}

\* the loop's state with the world around it
World ==
  [game |-> game, cb |-> chessboard, rc |-> locals,
   io_expander_interrupt_flag |-> io_expander_interrupt_flag,
   button_interrupt_flag |-> button_interrupt_flag,
   call |-> last, calls |-> calls, raised |-> raised, blocked |-> blocked,
   armed |-> armed, seen |-> seen, returned |-> returned,
   occupied |-> occupied, hand |-> hand,
   button_white |-> button_white, button_black |-> button_black,
   cpu |-> uci]

\* main.py and event_listener up to "while True", the pieces set up
FreshWorld == InitLoop(OccupiedOf(Chess(FEN_STARTING_POSITION)))

AppIs(w) ==
  /\ chessboard = w.cb /\ locals = w.rc
  /\ io_expander_interrupt_flag = w.io_expander_interrupt_flag
  /\ button_interrupt_flag = w.button_interrupt_flag
  /\ blocked = w.blocked /\ raised = w.raised
  /\ armed = w.armed /\ seen = w.seen /\ returned = w.returned
  /\ occupied = w.occupied /\ hand = w.hand
  /\ button_white = w.button_white /\ button_black = w.button_black
  /\ events = 0 /\ presses = 0 /\ touches = 0

Becomes(w) ==
  /\ game' = w.game /\ last' = w.call /\ calls' = w.calls
  /\ chessboard' = w.cb /\ locals' = w.rc
  /\ io_expander_interrupt_flag' = w.io_expander_interrupt_flag
  /\ button_interrupt_flag' = w.button_interrupt_flag
  /\ blocked' = w.blocked /\ raised' = w.raised
  /\ armed' = w.armed /\ seen' = w.seen /\ returned' = w.returned
  /\ occupied' = w.occupied /\ hand' = w.hand
  /\ button_white' = w.button_white /\ button_black' = w.button_black
  /\ UNCHANGED <<lost, heap>>

\* --- the Rule Engine driven through its public operations ----------------
Init ==
  /\ \E fen \in Fixtures : game = Chess(fen)
  /\ last = NoCall
  /\ calls = 0
  /\ lost = {}
  /\ AppIs(FreshWorld)
  /\ uci = InitUci /\ pc = "loop"
  /\ heap = InitHeap

\* An exception leaves the caller: nothing more is invoked on the object.
Running == last.ret # "Raise"

\* game.make_move(move, side). The record keeps the side after the default
\* (side = self.turn when None); a rejected call is recorded by its result
\* alone.
MakeMove(move, side) ==
  /\ Running
  /\ calls < MaxCalls
  /\ LET r == make_move(game, move, side) IN
     /\ game' = r.g
     /\ last' = [op |-> "make_move", ret |-> r.ret,
                 move |-> IF r.ret = "False" THEN <<>> ELSE move,
                 side |-> IF r.ret = "False" THEN <<>>
                          ELSE IF side = <<>> THEN game.turn ELSE side,
                 legal |-> InLegalMoves(game, move)]
     /\ lost' = IF r.ret = "True" THEN lost \cup WingsGivenUp(game, move) ELSE lost
  /\ calls' = calls + 1
  /\ UNCHANGED <<appvars, heap>>

\* game.set_fen(game.get_fen())
SetFen ==
  /\ Running
  /\ LET r == set_fen(game, get_fen(game)) IN
     /\ game' = r.g
     /\ last' = [op |-> "set_fen", ret |-> IF r.raised THEN "Raise" ELSE "None",
                 move |-> <<>>, side |-> <<>>, legal |-> FALSE]
  /\ UNCHANGED <<calls, lost, appvars, heap>>

\* reset_board() on the game (the clock-button handler calls it to start a
\* game, app.py line 892)
ResetBoard ==
  /\ Running
  /\ game' = reset_board(game)
  /\ last' = [op |-> "reset_board", ret |-> "None", move |-> <<>>,
              side |-> <<>>, legal |-> FALSE]
  /\ UNCHANGED <<calls, lost, appvars, heap>>

Next ==
  \/ \E move \in MoveInputs, side \in SideInputs : MakeMove(move, side)
  \/ SetFen
  \/ ResetBoard

Spec == Init /\ [][Next]_vars

\* --- several Chess objects in one run -------------------------------------
\* objects constructed in one run
MaxMade == 3

\* the positions the objects are constructed from
InstanceFens == {FEN_STARTING_POSITION, FEN_ROOKS}

\* the notations handed to make_move
InstanceMoves ==
  {<<"e","2","-","e","4">>, <<"d","7","-","d","5">>, <<"O","-","O">>,
   <<"e","2","-","e","5">>}

\* no object made yet
InitInstances ==
  /\ game = Chess(FEN_STARTING_POSITION)
  /\ last = NoCall /\ calls = 0 /\ lost = {}
  /\ AppIs(FreshWorld)
  /\ uci = InitUci /\ pc = "loop"
  /\ heap = InitHeap

\* Chess(fen), bound to name i
Construct(i, fen) ==
  /\ Running
  /\ heap.made < MaxMade
  /\ heap' = [heap EXCEPT !.inst[i] = NewChess(fen), !.on = i, !.made = @ + 1]
  /\ last' = NoCall
  /\ UNCHANGED <<game, calls, lost, appvars>>

\* object i .make_move(move)
MakeMoveOn(i, move) ==
  /\ Running
  /\ heap.inst[i].made
  /\ calls < MaxCalls
  /\ LET g == ViewOf(heap, i)
         r == make_move(g, move, <<>>)
     IN /\ heap' = Written(heap, i, r.g)
        /\ last' = CallRecord(g, move, g.turn, r.ret)
  /\ calls' = calls + 1
  /\ UNCHANGED <<game, lost, appvars>>

\* object i .reset_board()
ResetBoardOn(i) ==
  /\ Running
  /\ heap.inst[i].made
  /\ heap' = ResetWritten(heap, i)
  /\ last' = [op |-> "reset_board", ret |-> "None", move |-> <<>>,
              side |-> <<>>, legal |-> FALSE]
  /\ UNCHANGED <<game, calls, lost, appvars>>

NextInstances ==
  \/ \E i \in Instances, fen \in InstanceFens : Construct(i, fen)
  \/ \E i \in Instances, move \in InstanceMoves : MakeMoveOn(i, move)
  \/ \E i \in Instances : ResetBoardOn(i)

SpecInstances == InitInstances /\ [][NextInstances]_vars

\* --- the board, the hands and the buttons around the loop ----------------
\* a piece leaves its square, or is put down on an empty one: the expanders
\* interrupt (io_expander_interrupt sets the flag)
Lifted(w, sq) ==
  [w EXCEPT !.occupied = @ \ {sq}, !.hand = @ + 1,
            !.io_expander_interrupt_flag = TRUE]

Placed(w, sq) ==
  [w EXCEPT !.occupied = @ \cup {sq}, !.hand = @ - 1,
            !.io_expander_interrupt_flag = TRUE]

\* a clock button goes down (IRQ_FALLING: the callback sets the flag) or up
Pressed(w, side) ==
  [w EXCEPT !.button_white = IF side = W THEN TRUE ELSE @,
            !.button_black = IF side = B THEN TRUE ELSE @,
            !.button_interrupt_flag = TRUE]

Released(w, side) ==
  [w EXCEPT !.button_white = IF side = W THEN FALSE ELSE @,
            !.button_black = IF side = B THEN FALSE ELSE @]

\* one step of the world: the loop takes a turn, or a hand or a finger
\* does something
Step(w, e) ==
  CASE e[1] = "loop" -> EventLoop(w, e[2], w.button_white, w.button_black,
                                  w.occupied)
    [] e[1] = "lift" -> Lifted(w, e[2])
    [] e[1] = "place" -> Placed(w, e[2])
    [] e[1] = "press" -> Pressed(w, e[2])
    [] e[1] = "release" -> Released(w, e[2])
    [] e[1] = "aside" -> [w EXCEPT !.hand = @ - 1]

\* a half-move played by the book: lift, put down, press the clock
HalfMove(from, to, side) ==
  <<<<"lift", from>>, <<"loop", NoEvent>>, <<"place", to>>, <<"loop", NoEvent>>,
    <<"press", side>>, <<"loop", NoEvent>>, <<"release", side>>>>

\* the game started from the menu and black's clock button, then
\* g1-f3 b8-c6, e2-e3 c6-b8, f1-e2 b8-c6: white is ready to castle
Opening ==
  <<<<"loop", <<"start_human">>>>, <<"press", B>>, <<"loop", NoEvent>>,
    <<"release", B>>>>
  \o HalfMove(6, 21, W) \o HalfMove(57, 42, B) \o HalfMove(12, 20, W)
  \o HalfMove(42, 57, B) \o HalfMove(5, 12, W) \o HalfMove(57, 42, B)

\* a capture played by the book: lift the capturing piece, lift the captured
\* one and lay it aside, put the capturing piece on its square, press the
\* clock
CaptureMove(from, to, side) ==
  <<<<"lift", from>>, <<"loop", NoEvent>>, <<"lift", to>>, <<"aside">>,
    <<"loop", NoEvent>>, <<"place", to>>, <<"loop", NoEvent>>,
    <<"press", side>>, <<"loop", NoEvent>>, <<"release", side>>>>

\* the world after the steps lo..hi of a script played from w0; nothing is
\* played once the loop was left by an exception (the range is halved to keep
\* the evaluation shallow)
RECURSIVE PlayedBetween(_, _, _, _)
PlayedBetween(w0, script, lo, hi) ==
  IF w0.raised \/ lo > hi THEN w0
  ELSE IF lo = hi THEN Step(w0, script[lo])
  ELSE PlayedBetween(PlayedBetween(w0, script, lo, (lo + hi) \div 2),
                     script, ((lo + hi) \div 2) + 1, hi)

\* the world after the first k steps of a script played from w0
Played(w0, script, k) == PlayedBetween(w0, script, 1, k)

\* the opening played; the record of the calls starts here
AfterOpening ==
  [Played(FreshWorld, Opening, Len(Opening)) EXCEPT !.call = NoCall, !.calls = 0]

\* the game started the same way, then a2-a4 b7-b5, a4xb5 b8-c6, b5-b6
\* g8-f6, b6-b7 f6-g8: white's pawn on b7 is ready to promote on b8
PromotionOpening1 ==
  <<<<"loop", <<"start_human">>>>, <<"press", B>>, <<"loop", NoEvent>>,
    <<"release", B>>>>
  \o HalfMove(8, 24, W) \o HalfMove(49, 33, B)
PromotionOpening2 == CaptureMove(24, 33, W) \o HalfMove(57, 42, B)
PromotionOpening3 == HalfMove(33, 41, W) \o HalfMove(62, 45, B)
PromotionOpening4 == HalfMove(41, 49, W) \o HalfMove(45, 62, B)

AfterPromotionOpening1 ==
  Played(FreshWorld, PromotionOpening1, Len(PromotionOpening1))
AfterPromotionOpening2 ==
  Played(AfterPromotionOpening1, PromotionOpening2, Len(PromotionOpening2))
AfterPromotionOpening3 ==
  Played(AfterPromotionOpening2, PromotionOpening3, Len(PromotionOpening3))
AfterPromotionOpening ==
  [Played(AfterPromotionOpening3, PromotionOpening4, Len(PromotionOpening4))
     EXCEPT !.call = NoCall, !.calls = 0]

StartsAs(w) ==
  /\ game = w.game /\ last = w.call /\ calls = w.calls /\ lost = {}
  /\ AppIs(w)
  /\ uci = InitUci /\ pc = "loop"
  /\ heap = InitHeap

InitApp == StartsAs(FreshWorld) \/ StartsAs(AfterOpening)

Lift(sq) ==
  /\ ~raised /\ events < MaxEvents
  /\ sq \in occupied /\ hand < MaxHand
  /\ Becomes(Lifted(World, sq))
  /\ events' = events + 1
  /\ UNCHANGED <<presses, touches, uci, pc>>

Place(sq) ==
  /\ ~raised /\ events < MaxEvents
  /\ sq \notin occupied /\ hand > 0
  /\ Becomes(Placed(World, sq))
  /\ events' = events + 1
  /\ UNCHANGED <<presses, touches, uci, pc>>

Press(side) ==
  /\ ~raised /\ presses < MaxPresses
  /\ ~(IF side = W THEN button_white ELSE button_black)
  /\ Becomes(Pressed(World, side))
  /\ presses' = presses + 1
  /\ UNCHANGED <<events, touches, uci, pc>>

Release(side) ==
  /\ ~raised
  /\ IF side = W THEN button_white ELSE button_black
  /\ Becomes(Released(World, side))
  /\ UNCHANGED <<events, presses, touches, uci, pc>>

\* one turn of "while True", with the touch event read from the display
\* if there is one; a loop inside the board set-up waits for the sensors
Loop(event) ==
  /\ ~raised /\ calls < MaxCalls
  /\ pc = "loop"
  /\ blocked => (event = NoEvent /\ io_expander_interrupt_flag)
  /\ event # NoEvent => touches < MaxTouches
  /\ Becomes(Step(World, <<"loop", event>>))
  /\ touches' = IF event = NoEvent THEN touches ELSE touches + 1
  /\ UNCHANGED <<events, presses, uci, pc>>

\* sensor changes in one run over all four squares
MaxAppEvents == 5

NextApp ==
  \/ \E sq \in HandSquares : events < MaxAppEvents /\ Lift(sq)
  \/ \E sq \in HandSquares : events < MaxAppEvents /\ Place(sq)
  \/ \E side \in {W, B} : Press(side)
  \/ \E side \in {W, B} : Release(side)
  \/ \E event \in TouchEvents \cup {NoEvent} : Loop(event)

SpecApp == InitApp /\ [][NextApp]_vars

\* --- the loop with the king walking along the first rank -------------------
\* the squares the hands lift from and place on: e1, f1, g1
KingWalkSquares == {4, 5, 6}

NextKingWalk ==
  \/ \E sq \in KingWalkSquares : Lift(sq)
  \/ \E sq \in KingWalkSquares : Place(sq)
  \/ \E side \in {W, B} : Press(side)
  \/ \E side \in {W, B} : Release(side)
  \/ \E event \in TouchEvents \cup {NoEvent} : Loop(event)

SpecKingWalk == InitApp /\ [][NextKingWalk]_vars

\* --- the loop with a pawn about to promote --------------------------------
\* the squares the hands lift from and place on: b7, b8
PromotionSquares == {49, 57}

\* the promotion page's buttons pressed in these runs: queen and knight
PromotionEvents == {<<"promotion", "Q">>, <<"promotion", "N">>}

InitPromotion == StartsAs(AfterPromotionOpening)

NextPromotion ==
  \/ \E sq \in PromotionSquares : Lift(sq)
  \/ \E sq \in PromotionSquares : Place(sq)
  \/ \E side \in {W, B} : Press(side)
  \/ \E side \in {W, B} : Release(side)
  \/ \E event \in PromotionEvents \cup {NoEvent} : Loop(event)

SpecPromotion == InitPromotion /\ [][NextPromotion]_vars

\* --- the loop with either side to move -----------------------------------
\* the squares the hands lift from and place on: e1, f1, c6, b8
ConfirmSquares == {4, 5, 42, 57}

\* the game started from the menu and black's clock button, then g1-f3:
\* black is to move
FirstMove ==
  <<<<"loop", <<"start_human">>>>, <<"press", B>>, <<"loop", NoEvent>>,
    <<"release", B>>>>
  \o HalfMove(6, 21, W)

AfterFirstMove ==
  [Played(FreshWorld, FirstMove, Len(FirstMove)) EXCEPT !.call = NoCall, !.calls = 0]

InitConfirm == StartsAs(AfterOpening) \/ StartsAs(AfterFirstMove)

NextConfirm ==
  \/ \E sq \in ConfirmSquares : Lift(sq)
  \/ \E sq \in ConfirmSquares : Place(sq)
  \/ \E side \in {W, B} : Press(side)
  \/ \E side \in {W, B} : Release(side)
  \/ Loop(NoEvent)

SpecConfirm == InitConfirm /\ [][NextConfirm]_vars

\* --- the loop with a capture at hand ---------------------------------------
\* the squares the hands lift from and place on: e4, d5
CaptureSquares == {28, 35}

\* the game started from the menu and black's clock button, then e2-e4
\* d7-d5: white's pawn on e4 can take the pawn on d5
CaptureOpening ==
  <<<<"loop", <<"start_human">>>>, <<"press", B>>, <<"loop", NoEvent>>,
    <<"release", B>>>>
  \o HalfMove(12, 28, W) \o HalfMove(51, 35, B)

AfterCaptureOpening ==
  [Played(FreshWorld, CaptureOpening, Len(CaptureOpening))
     EXCEPT !.call = NoCall, !.calls = 0]

InitCapture == StartsAs(AfterCaptureOpening)

NextCapture ==
  \/ \E sq \in CaptureSquares : Lift(sq)
  \/ \E sq \in CaptureSquares : Place(sq)
  \/ \E side \in {W, B} : Press(side)
  \/ \E side \in {W, B} : Release(side)
  \/ Loop(NoEvent)

SpecCapture == InitCapture /\ [][NextCapture]_vars

\* --- the loop in a game against the CPU, the engine thinking --------------
\* the square the hands lift from and place on: e2
UciSquares == {12}

\* the touch events of these runs
UciEvents == {<<"fix_board">>, <<"fix_completed">>}

\* lines written by the engine and not read yet
MaxReader == 1
\* lines written by the engine in one run
MaxWritten == 2
\* timeouts of the poll in one run
MaxTimeouts == 2

\* the game against the CPU started from the menu and black's clock button;
\* the CPU plays white and is to move
CpuOpening ==
  <<<<"loop", <<"start_cpu">>>>, <<"press", B>>, <<"loop", NoEvent>>,
    <<"release", B>>>>

CpuGameStarted == Played(FreshWorld, CpuOpening, Len(CpuOpening))

InitCpu ==
  /\ game = CpuGameStarted.game /\ last = NoCall /\ calls = 0 /\ lost = {}
  /\ AppIs(CpuGameStarted)
  /\ uci = StartCpu(InitUci, W) /\ pc = "loop"
  /\ heap = InitHeap

\* the engine writes a line to the connection
EngineWrites(line) ==
  /\ ~raised
  /\ uci.written < MaxWritten /\ Len(uci.reader) < MaxReader
  /\ uci' = [uci EXCEPT !.reader = Append(@, line), !.written = @ + 1]
  /\ UNCHANGED <<game, last, calls, lost, loopvars, events, presses, touches,
                 pc, heap>>

\* the rest of a turn after the block "Handle CPU move": buttons, sensors,
\* end of game
CpuTurnEnds(u, t) ==
  /\ Becomes(t)
  /\ uci' = CpuAfterConfirm(u, t.calls > calls /\ ~t.raised, t.game.turn)
  /\ pc' = "loop"

CpuTurnTail(u) ==
  CpuTurnEnds(u, GameStages([World EXCEPT !.cpu = u], button_white,
                            button_black, occupied))

\* lines 793-807 after the head h of the turn: with the engine to be polled
\* the loop awaits inside engine_response, otherwise the turn runs to its end
CpuBlock(h, cpu, u) ==
  IF cpu /\ CpuPolls(u, game.turn)
  THEN /\ Becomes(h.u)
       /\ uci' = u
       /\ pc' = "engine_response"
  ELSE CpuTurnEnds(u, IF h.game_logic
                      THEN GameStages([h.u EXCEPT !.cpu = u], button_white,
                                      button_black, occupied)
                      ELSE h.u)

CpuTurnGiven(h, cpu) == CpuBlock(h, cpu, IF cpu THEN CpuGo(uci, game.turn) ELSE uci)

CpuTurn(h) ==
  CpuTurnGiven(h, /\ h.game_logic /\ h.u.rc.game_in_progress
                  /\ uci.game_mode = MODE_VS_CPU)

\* a turn of "while True" up to the poll of the engine, and to its end when
\* the engine is not polled
LoopCpu(event) ==
  /\ ~raised /\ calls < MaxCalls
  /\ pc = "loop"
  /\ blocked => (event = NoEvent /\ io_expander_interrupt_flag)
  /\ event # NoEvent => touches < MaxTouches
  /\ CpuTurn(TurnHead(World, event, occupied))
  /\ touches' = IF event = NoEvent THEN touches ELSE touches + 1
  /\ UNCHANGED <<events, presses>>

\* one pass of engine_response's loop; when it returns, the turn goes on
PollPass(p) ==
  IF p.returns
  THEN CpuTurnTail(CpuResponse([uci EXCEPT !.reader = p.reader,
                                           !.response = p.clean_response],
                               p.clean_response))
  ELSE /\ uci' = [uci EXCEPT !.reader = p.reader,
                             !.timeouts = IF p.timeout THEN @ + 1 ELSE @]
       /\ UNCHANGED <<game, last, calls, lost, loopvars, pc, heap>>

\* readline() delivers a line within the timeout
ReadLine ==
  /\ ~raised /\ pc = "engine_response"
  /\ Len(uci.reader) > 0
  /\ PollPass(EngineResponsePass(uci.reader, MATCH_STRING))
  /\ UNCHANGED <<events, presses, touches>>

\* asyncio.TimeoutError: no line within the timeout
Timeout ==
  /\ ~raised /\ pc = "engine_response"
  /\ Len(uci.reader) = 0 /\ uci.timeouts < MaxTimeouts
  /\ PollPass(EngineResponsePass(uci.reader, MATCH_STRING))
  /\ UNCHANGED <<events, presses, touches>>

NextCpu ==
  \/ \E sq \in UciSquares : Lift(sq)
  \/ \E sq \in UciSquares : Place(sq)
  \/ \E side \in {W, B} : Press(side)
  \/ \E side \in {W, B} : Release(side)
  \/ \E line \in EngineLines : EngineWrites(line)
  \/ \E event \in UciEvents \cup {NoEvent} : LoopCpu(event)
  \/ ReadLine
  \/ Timeout

SpecCpu == InitCpu /\ [][NextCpu]_vars

\* --- the loop in a game against the CPU, the engine's move chosen ---------
\* the squares the hands lift from and place on: d2, e2, e4
RemoteSquares == {11, 12, 28}

\* the line the engine answered with
LINE_BESTMOVE == <<"b", "e", "s", "t", "m", "o", "v", "e", " ", "e", "2", "e", "4">>

\* the engine was sent the starting position and has answered: e2e4 is
\* shown on the board for the hand to play
RemoteChose == CpuResponse(CpuGo(StartCpu(InitUci, W), W), LINE_BESTMOVE)

InitRemote ==
  /\ game = CpuGameStarted.game /\ last = NoCall /\ calls = 0 /\ lost = {}
  /\ AppIs(CpuGameStarted)
  /\ uci = RemoteChose /\ pc = "loop"
  /\ heap = InitHeap

NextRemote ==
  \/ \E sq \in RemoteSquares : Lift(sq)
  \/ \E sq \in RemoteSquares : Place(sq)
  \/ \E side \in {W, B} : Press(side)
  \/ \E side \in {W, B} : Release(side)
  \/ LoopCpu(NoEvent)

SpecRemote == InitRemote /\ [][NextRemote]_vars

\* --- the loop and the sensors' interrupts, step by step -------------------
\* io_expander_callback runs between any two steps of the loop. A turn is
\* cut where the loop has cleared io_expander_interrupt_flag and has not read
\* the board yet: lines 750/751 (board-fix mode) and 1056/1058 (game).
\* the touch events of these runs
IrqEvents == {<<"promotion", "Q">>, <<"fix_board">>, <<"fix_completed">>}

InitIrq == StartsAs(AfterPromotionOpening)

\* the turn goes on after its head h and the button block b: line 1055 tests
\* the flag, line 1056 clears it
IrqSensorTest(b) ==
  IF b.raised THEN Becomes(b) /\ pc' = "loop"
  ELSE IF b.io_expander_interrupt_flag /\ b.rc.game_in_progress
  THEN /\ Becomes([b EXCEPT !.io_expander_interrupt_flag = FALSE])
       /\ pc' = "read_board"
  ELSE Becomes(AfterSensor(b)) /\ pc' = "loop"

IrqAfterHead(h) ==
  IF ~h.game_logic THEN Becomes(h.u) /\ pc' = "loop"
  ELSE IrqSensorTest(ButtonStage(h.u, button_white, button_black, occupied))

\* f is the state after the touch event and "Handle Fix Last Position Event":
\* line 749 tests the flag, line 750 clears it
IrqAfterTouch(f) ==
  IF ~blocked /\ f.rc.in_game_mode /\ f.rc.fix_board_flag
     /\ f.io_expander_interrupt_flag
  THEN /\ Becomes([f EXCEPT !.io_expander_interrupt_flag = FALSE])
       /\ pc' = "fix_read_board"
  ELSE IrqAfterHead(TurnHeadGiven(World, f, occupied))

\* a turn of "while True" up to the clearing of the flag, and to its end
\* when the flag is not set
LoopIrq(event) ==
  /\ ~raised /\ calls < MaxCalls
  /\ pc = "loop"
  /\ blocked => (event = NoEvent /\ io_expander_interrupt_flag)
  /\ event # NoEvent => touches < MaxTouches
  /\ IrqAfterTouch(FixShowStage(TouchStage([World EXCEPT !.seen = NoDelivery],
                                           event, occupied), occupied))
  /\ touches' = IF event = NoEvent THEN touches ELSE touches + 1
  /\ UNCHANGED <<events, presses, uci>>

\* lines 1058-1517: the board is read and the turn runs to its end; the flag
\* is what io_expander_callback has made of it since line 1056
IrqRead(t) ==
  Becomes(AfterSensor(IF t.raised THEN t
                      ELSE [t EXCEPT !.io_expander_interrupt_flag =
                                        io_expander_interrupt_flag]))

ReadBoard ==
  /\ ~raised /\ pc = "read_board"
  /\ IrqRead(SensorStage([World EXCEPT !.io_expander_interrupt_flag = TRUE],
                         occupied))
  /\ pc' = "loop"
  /\ UNCHANGED <<events, presses, touches, uci>>

\* lines 751-759: the board is read for the board-fix page
FixReadBoard ==
  /\ ~raised /\ pc = "fix_read_board"
  /\ Becomes([World EXCEPT !.cb = read_board(chessboard, occupied)])
  /\ pc' = "loop"
  /\ UNCHANGED <<events, presses, touches, uci>>

NextIrq ==
  \/ \E sq \in PromotionSquares : Lift(sq)
  \/ \E sq \in PromotionSquares : Place(sq)
  \/ \E side \in {W, B} : Press(side)
  \/ \E side \in {W, B} : Release(side)
  \/ \E event \in IrqEvents \cup {NoEvent} : LoopIrq(event)
  \/ ReadBoard
  \/ FixReadBoard

SpecIrq == InitIrq /\ [][NextIrq]_vars

(***************************************************************************)
(* The rules of chess the claims are measured against                      *)
(***************************************************************************)
\* the squares strictly between p and q, when they share a rank, a file or a
\* diagonal
RuleBetween(p, q) ==
  LET df == (q % 8) - (p % 8)
      dr == (q \div 8) - (p \div 8)
      n  == IF AbsDiff(df, 0) > AbsDiff(dr, 0) THEN AbsDiff(df, 0) ELSE AbsDiff(dr, 0)
  IN {p + k * ((q - p) \div n) : k \in 1..(n - 1)}

\* the piece standing on p attacks the square q
RuleAttacks(board, p, q) ==
  LET piece == board[p]
      df == AbsDiff(q % 8, p % 8)
      dr == (q \div 8) - (p \div 8)
      ar == AbsDiff(dr, 0)
      clear == \A m \in RuleBetween(p, q) : board[m] = " "
  IN
  /\ p # q
  /\ CASE piece = "P" -> df = 1 /\ dr = 1
       [] piece = "p" -> df = 1 /\ dr = 0 - 1
       [] piece \in {"N", "n"} -> {df, ar} = {1, 2}
       [] piece \in {"K", "k"} -> df <= 1 /\ ar <= 1
       [] piece \in {"B", "b"} -> df = ar /\ clear
       [] piece \in {"R", "r"} -> (df = 0 \/ ar = 0) /\ clear
       [] piece \in {"Q", "q"} -> (df = ar \/ df = 0 \/ ar = 0) /\ clear
       [] OTHER -> FALSE

\* some piece of colour by attacks the square q
RuleAttacked(board, q, by) ==
  \E p \in Squares : is_friendly(board, p, by) /\ RuleAttacks(board, p, q)

Opponent(side) == IF side = W THEN B ELSE W

\* the king of side is attacked on the board
RuleInCheck(board, side) ==
  \E q \in Squares :
    /\ board[q] = (IF side = W THEN "K" ELSE "k")
    /\ RuleAttacked(board, q, Opponent(side))

\* the board after a move of the legal-move list, by the engine's own update
BoardAfter(g, move, side) ==
  IF IsCastleToken(move) THEN perform_castle(g, move, side).g.board
  ELSE make_test_move(g, g.board, move, side)

\* the moves get_legal_moves returns for the piece on sq (none if it raises)
LegalMovesOf(g, sq) ==
  LET legal_moves == get_legal_moves(g, sq) IN
  IF legal_moves.raised THEN {}
  ELSE {legal_moves.moves[k] : k \in 1..Len(legal_moves.moves)}

\* the squares of one castling: king's square, squares between king and rook,
\* the rook's corner, and the king's path
CastleHome(side) == IF side = W THEN 4 ELSE 60
CastleCorner(side, token) ==
  IF token = OO THEN CastleHome(side) + 3 ELSE CastleHome(side) - 4
CastlePath(side, token) ==
  IF token = OO THEN {CastleHome(side), CastleHome(side) + 1, CastleHome(side) + 2}
  ELSE {CastleHome(side) - 2, CastleHome(side) - 1, CastleHome(side)}
CastleRight(side, token) ==
  IF side = W THEN (IF token = OO THEN "K" ELSE "Q")
  ELSE (IF token = OO THEN "k" ELSE "q")

\* castling is offered to side: the token is among the legal moves of its king
CastleOffered(g, side, token) ==
  \E sq \in Squares :
    /\ g.board[sq] = (IF side = W THEN "K" ELSE "k")
    /\ token \in LegalMovesOf(g, sq)

\* the board after a move of a legal-move list, by the rules of chess: the
\* piece goes to its destination (a promoted pawn stays a blocker of the same
\* colour), castling moves king and rook, en passant removes the passed pawn
RuleBoardAfter(board, move, side) ==
  IF IsCastleToken(move)
  THEN LET home == CastleHome(side)
           king == IF side = W THEN "K" ELSE "k"
           rook == IF side = W THEN "R" ELSE "r"
       IN IF move = OO
          THEN [board EXCEPT ![home] = " ", ![home + 3] = " ",
                             ![home + 2] = king, ![home + 1] = rook]
          ELSE [board EXCEPT ![home] = " ", ![home - 4] = " ",
                             ![home - 2] = king, ![home - 1] = rook]
  ELSE LET from == algebraic_to_board_index(Slice(move, 0, 2))
           to   == algebraic_to_board_index(Slice(move, 3, 5))
           passing == Len(move) >= 9 /\ Slice(move, 5, 9) = <<"e", ".", "p", ".">>
           moved == [board EXCEPT ![to] = board[from], ![from] = " "]
       IN IF passing
          THEN [moved EXCEPT ![IF side = W THEN to - 8 ELSE to + 8] = " "]
          ELSE moved

SideOf(piece) == IF isupper(piece) THEN W ELSE B

\* a two-square pawn push: a pawn leaves its home rank straight ahead by two
\* ranks onto an empty square, over an empty square
DoublePush(board, move) ==
  /\ ~IsCastleToken(move)
  /\ LET from == algebraic_to_board_index(Slice(move, 0, 2))
         to   == algebraic_to_board_index(Slice(move, 3, 5))
     IN \/ board[from] = "P" /\ from \div 8 = 1 /\ to = from + 16
           /\ board[from + 8] = " " /\ board[to] = " "
        \/ board[from] = "p" /\ from \div 8 = 6 /\ to = from - 16
           /\ board[from - 8] = " " /\ board[to] = " "

\* the square a two-square push skips, in algebraic notation
SkippedSquare(move) ==
  board_index_to_algebraic(
    (algebraic_to_board_index(Slice(move, 0, 2))
     + algebraic_to_board_index(Slice(move, 3, 5))) \div 2)

\* the six fields a FEN string carries
FenFields(g) ==
  <<g.board, g.turn, g.castling, g.enpassant, g.halfmove, g.fullmove>>

(***************************************************************************)
(* The Rule Engine's claims                                                *)
(***************************************************************************)
\* C1: make_move returns False and leaves the whole game state unchanged
\* whenever the notation is not a member of get_legal_moves(source square),
\* promotion and e.p. suffixes included.
C1_IllegalMoveRejected ==
  [][(last'.op = "make_move" /\ calls' = calls + 1 /\ ~last'.legal)
       => (last'.ret = "False" /\ game' = game)]_vars

\* C2: in every position, for every square, no move of get_legal_moves
\* leaves the mover's own king attacked by an opposing piece under the rules
\* of chess once the move is applied.
C2_NoMoveLeavesKingAttacked ==
  Running =>
    \A sq \in Squares :
      game.board[sq] # " " =>
        \A move \in LegalMovesOf(game, sq) :
          ~RuleInCheck(RuleBoardAfter(game.board, move, SideOf(game.board[sq])),
                       SideOf(game.board[sq]))

\* C6: once a successful make_move has moved a king, moved a rook off its home
\* corner or captured a rook on its home corner, the matching castling rights
\* are gone from the rights set and that castling is never offered again.
C6_RightsRemovedForGood ==
  Running =>
    \A wing \in lost :
      /\ \A k \in 1..Len(game.castling) : game.castling[k] # wing
      /\ ~CastleOffered(game, SideOf(wing),
                        IF wing \in {"K", "k"} THEN OO ELSE OOO)

\* C7: for both colours and both wings, castling is never among the legal
\* moves and never accepted by make_move while the king's start, transit or
\* destination square is attacked by an opposing piece, pawns included.
C7_NoCastlingAcrossAttack ==
  Running =>
    \A side \in {W, B}, token \in {OO, OOO} :
      (\E q \in CastlePath(side, token) :
          RuleAttacked(game.board, q, Opponent(side)))
        => /\ ~CastleOffered(game, side, token)
           /\ (side = game.turn => make_move(game, token, side).ret # "True")

\* C8: castling is offered only if the king stands on its home square, the
\* rook of that wing on its home corner, the matching right is set and every
\* square between king and rook is empty.
C8_CastlingOnlyFromHomeSquares ==
  Running =>
    \A side \in {W, B}, token \in {OO, OOO} :
      CastleOffered(game, side, token)
        => /\ game.board[CastleHome(side)] = (IF side = W THEN "K" ELSE "k")
           /\ game.board[CastleCorner(side, token)] = (IF side = W THEN "R" ELSE "r")
           /\ \E k \in 1..Len(game.castling) :
                 game.castling[k] = CastleRight(side, token)
           /\ \A m \in RuleBetween(CastleHome(side), CastleCorner(side, token)) :
                 game.board[m] = " "

\* C9: after a successful make_move by the side to move, the en-passant
\* target is the skipped square exactly when the move was a two-square pawn
\* push, and "-" after every other move.
C9_EnPassantTargetOnlyAfterDoublePush ==
  [][(last'.op = "make_move" /\ calls' = calls + 1 /\ last'.ret = "True"
      /\ last'.side = game.turn)
       => game'.enpassant = (IF DoublePush(game.board, last'.move)
                             THEN SkippedSquare(last'.move) ELSE DASH)]_vars

\* C10: in every state reached by successful make_move calls, castled or not,
\* set_fen(get_fen()) reproduces board, side to move, castling rights,
\* en-passant target, halfmove clock and fullmove number.
C10_FenRoundTrip ==
  (Running /\ last.op # "set_fen") =>
    LET r == set_fen(game, get_fen(game)) IN
    ~r.raised /\ FenFields(r.g) = FenFields(game)

\* a notation as the interface describes it: a castling token, or two
\* squares with an optional separator, promotion suffix and e.p. suffix, and
\* nothing after them
WellFormed(move) ==
  \/ IsCastleToken(move)
  \/ LET m == RegexMatch(move, FALSE) IN
     /\ m.matched
     /\ Len(move) = Len(m.g1) + Len(m.g2) + Len(m.g3) + Len(m.g4) + Len(m.g5)

\* C11: in every position, for every input string, make_move returns True or
\* False and never raises, and a string that is neither a castling token nor
\* two squares with the optional separator and suffixes is answered False
\* with the game state unchanged.
C11_MakeMoveNeverRaises ==
  Running =>
    \A move \in MoveInputs :
      LET r == make_move(game, move, <<>>) IN
      /\ r.ret \in {"True", "False"}
      /\ ~WellFormed(move) => (r.ret = "False" /\ r.g = game)

\* the side has no move in the Rule Engine's legal-move list of the position
NoLegalMove(g, side) ==
  LET all == all_legal_moves(g, side, FALSE) IN
  ~all.raised /\ Len(all.moves) = 0

\* the result field that goes with the flags: the mating side's win, a draw,
\* or in progress
ResultFor(g) ==
  IF g.checkmate_flag THEN (IF g.turn = B THEN "1-0" ELSE "0-1")
  ELSE IF g.stalemate_flag THEN "1/2-1/2"
  ELSE "*"

\* C12: after every successful make_move, check_flag is true exactly when
\* the king of the new side to move is attacked, checkmate_flag exactly when
\* it is attacked and that side has no legal move, stalemate_flag exactly
\* when it is not attacked and that side has no legal move, game_over_flag is
\* their disjunction, and result names the mating side, a draw or a game in
\* progress.
C12_FlagsFollowThePosition ==
  [][(last'.op = "make_move" /\ calls' = calls + 1 /\ last'.ret = "True")
       => LET attacked == RuleInCheck(game'.board, game'.turn)
              stuck    == NoLegalMove(game', game'.turn)
          IN /\ game'.check_flag = attacked
             /\ game'.checkmate_flag = (attacked /\ stuck)
             /\ game'.stalemate_flag = (~attacked /\ stuck)
             /\ game'.game_over_flag
                  = (game'.checkmate_flag \/ game'.stalemate_flag)
             /\ game'.result = ResultFor(game')]_vars

\* C13: checkmate and stalemate are terminal: while game_over_flag is set,
\* every make_move call, whatever its side argument, returns False and
\* leaves the game state unchanged.
C13_GameOverIsTerminal ==
  [][(game.game_over_flag /\ last'.op = "make_move" /\ calls' = calls + 1)
       => (last'.ret = "False" /\ game' = game)]_vars

(***************************************************************************)
(* The Move Reconciler's claims                                            *)
(***************************************************************************)
\* C3: in human-vs-human mode every notation the loop passes to make_move on
\* a confirm press is one of the Rule Engine's legal moves of the side to
\* move in the position the game is in, whatever was lifted and put down
\* before the press
C3_ConfirmedNotationIsLegal ==
  [][(last'.op = "make_move" /\ calls' = calls + 1)
       => /\ last'.legal
          /\ SideOf(game.board[SourceSquare(game, last'.move)]) = game.turn]_vars

\* C4: once the snapshot delivered is the one before the sequence again, the
\* candidate is cancelled: the turns of the loop that follow, a confirm press
\* among them, call the Rule Engine for no move and leave the game as it is
C4_ReturnCancelsCandidate ==
  [][returned => (calls' = calls /\ game' = game)]_vars

\* C5: a snapshot that differs from the baseline in more than 2 squares,
\* delivered while neither a castling nor an en-passant window is armed for
\* the half-move attempt under way, puts the loop into the forced board fix,
\* and no move is applied to the Rule Engine until the fix is completed
C5_DesyncBeyondTwoSquares ==
  [][/\ (seen'.delta > 2 /\ ~seen'.window) => locals'.force_fix_board_flag
     /\ (locals.force_fix_board_flag \/ locals.fix_board_flag)
          => calls' = calls]_vars

\* C14: after every confirm press handled with a pending candidate (the loop
\* has called make_move), and before another snapshot is reconciled, the
\* logical mirror Chessboard.board equals the Rule Engine's board square for
\* square
C14_MirrorEqualsEngineBoard ==
  [][(calls' = calls + 1 /\ last'.op = "make_move" /\ seen' = NoDelivery)
       => chessboard'.board = game'.board]_vars

\* C15: while a pawn promotion has been detected and no promotion piece has
\* been selected, a turn of the loop, a confirm press included, applies no
\* move to the Rule Engine; the move of a promotion under way is applied only
\* once the piece has been selected on the display, and its notation ends
\* with "=" and the chosen piece
C15_PromotionWaitsForThePiece ==
  [][/\ (locals.is_promoting /\ ~locals.promotion_complete_flag
          /\ touches' = touches)
          => calls' = calls
     /\ (locals.is_promoting /\ calls' = calls + 1 /\ last'.op = "make_move")
          => /\ locals.promotion_complete_flag \/ touches' = touches + 1
             /\ Len(last'.move) = 7
             /\ SubSeq(last'.move, 6, 7) = <<"=", locals'.promotion_piece>>]_vars

\* the squares a snapshot of the sensors shows occupied
SquaresOf(board_status) == {sq \in Squares : CoordBit(sq) \in board_status}

\* the castled pattern of a colour and wing against the baseline: the king's
\* home square and the rook's corner empty, the king's and the rook's
\* destinations occupied, every other square as in the baseline
CastledPattern(color, side, snapshot, baseline) ==
  LET home   == CastleHome(color)
      corner == IF side = "K" THEN home + 3 ELSE home - 4
      kingTo == IF side = "K" THEN home + 2 ELSE home - 2
      rookTo == IF side = "K" THEN home + 1 ELSE home - 1
  IN /\ side \in {"K", "Q"}
     /\ {home, corner} \cap snapshot = {}
     /\ {kingTo, rookTo} \subseteq snapshot
     /\ \A sq \in Squares \ {home, corner, kingTo, rookTo} :
           sq \in snapshot <=> sq \in baseline

\* C16: the loop declares the castling complete and confirmable only when
\* the snapshot just read shows exactly the castled pattern of the chosen
\* wing: king's home square and rook's corner empty, both destinations
\* occupied, no other square changed from the baseline
C16_CastlingPendingOnlyOnPattern ==
  [][(~locals.castling_complete_flag /\ locals'.castling_complete_flag)
       => CastledPattern(game.turn, locals'.castling_side,
                         SquaresOf(locals'.board_status),
                         SquaresOf(locals'.prev_board_status))]_vars

\* C17: when the engine sends no matching line within the timeout of one
\* attempt, the poll returns to the loop with "no response" (None), and the
\* loop gives up the wait so that it asks again on its next turn: a timeout
\* of the poll is followed by the loop running on, never by the poll waiting
\* again.
C17_SilentEngineReturnsToTheLoop ==
  [][(pc = "engine_response" /\ uci'.timeouts = uci.timeouts + 1)
       => /\ pc' = "loop"
          /\ uci'.response = None
          /\ ~uci'.uci_player_wait_flag]_vars

\* the sensors have changed since the board was read last
Unread == SquaresOf(chessboard.board_status) # occupied

\* C18: in every interleaving of the sensors' interrupts with the steps of
\* the loop no sensor change is lost: while a game is in progress, a change
\* of the sensors that no read of the board has seen yet is pending in
\* io_expander_interrupt_flag (or the loop has just cleared the flag and is
\* about to read), in a loop that is still running, so that a read of the
\* board that starts after the interrupt follows.
C18_NoSensorChangeIsLost ==
  (locals.game_in_progress /\ Unread)
    => /\ io_expander_interrupt_flag \/ pc \in {"read_board", "fix_read_board"}
       /\ ~raised

\* the reconciler is in Desync: the board-fix page is shown
InDesync == locals.fix_board_flag

\* C19: once the reconciler is in Desync (board-fix mode), a step makes no
\* Rule Engine call and leaves the game as it is; without a touch event
\* (sensor changes, clock buttons, turns of the loop) the reconciler's
\* locals stay as they are; and Desync is left only in a turn that handles a
\* touch event (fix completed), after which the snapshot read last is the
\* baseline and no candidate is pending.
C19_DesyncIsLeftOnlyByFixCompleted ==
  [][InDesync =>
       /\ calls' = calls /\ game' = game
       /\ touches' = touches => locals' = locals
       /\ ~locals'.fix_board_flag =>
            /\ touches' = touches + 1
            /\ locals'.prev_board_status = chessboard'.board_status
            /\ locals'.board_status = chessboard'.board_status
            /\ ~locals'.move_complete_flag
            /\ locals'.move_notation = None]_vars

\* in Desync with a candidate pending: the loop has read a sensor change for
\* the board-fix page (the reconciler's snapshot is not the board's), and
\* white, to move, holds the clock button down
C19_Witness ==
  /\ InDesync /\ locals.game_in_progress
  /\ locals.move_complete_flag /\ game.turn = W
  /\ ~io_expander_interrupt_flag
  /\ chessboard.board_status # locals.board_status
  /\ button_interrupt_flag /\ button_white

\* every flag of the reconciliation context at its idle value
Idle(rc) ==
  /\ ~rc.piece_removed /\ rc.board_state_piece_lifted = {}
  /\ ~rc.capture_flag
  /\ rc.board_state_capturing_piece = {} /\ rc.board_state_captured_piece = {}
  /\ ~rc.potential_castle /\ ~rc.is_castling /\ rc.castling_side = "None"
  /\ ~rc.finish_castling_flag /\ ~rc.castling_complete_flag
  /\ ~rc.potential_en_passant /\ ~rc.is_en_passant_move
  /\ ~rc.potential_promotion /\ ~rc.is_promoting
  /\ ~rc.promotion_complete_flag
  /\ ~rc.move_complete_flag

\* C20: after a confirmed move (a turn of the loop in which the clock button
\* hands the candidate to the Rule Engine and the sensors are not read),
\* after a take-back (the sensors read the baseline again while an attempt
\* was under way), both in a game without a touch event so far, and after a
\* forced resynchronization (Desync left), every flag of the reconciliation
\* context is at its idle value.
C20_ContextIsIdleBetweenAttempts ==
  [][(\/ /\ calls' = calls + 1 /\ last'.op = "make_move" /\ ~raised'
         /\ seen' = NoDelivery /\ touches' = 0
      \/ /\ locals.position_changed_flag /\ ~InDesync
         /\ seen' # NoDelivery /\ seen'.delta = 0 /\ ~raised'
         /\ touches' = 0
      \/ /\ InDesync /\ ~locals'.fix_board_flag /\ seen' = NoDelivery)
       => Idle(locals')]_vars

\* the fields of the reconciler's state: phase flags, pending candidate and
\* notation, baseline snapshot
ReconcilerState(rc) ==
  [piece_removed |-> rc.piece_removed, capture_flag |-> rc.capture_flag,
   board_state_piece_lifted |-> rc.board_state_piece_lifted,
   board_state_capturing_piece |-> rc.board_state_capturing_piece,
   board_state_captured_piece |-> rc.board_state_captured_piece,
   position_changed_flag |-> rc.position_changed_flag,
   potential_castle |-> rc.potential_castle, is_castling |-> rc.is_castling,
   castling_side |-> rc.castling_side,
   finish_castling_flag |-> rc.finish_castling_flag,
   castling_complete_flag |-> rc.castling_complete_flag,
   potential_en_passant |-> rc.potential_en_passant,
   is_en_passant_move |-> rc.is_en_passant_move,
   potential_promotion |-> rc.potential_promotion,
   is_promoting |-> rc.is_promoting,
   promotion_complete_flag |-> rc.promotion_complete_flag,
   force_fix_board_flag |-> rc.force_fix_board_flag,
   fix_board_flag |-> rc.fix_board_flag,
   move_complete_flag |-> rc.move_complete_flag,
   final_move |-> rc.final_move, move_notation |-> rc.move_notation,
   curr_pieces |-> rc.curr_pieces,
   board_status |-> rc.board_status,
   prev_board_status |-> rc.prev_board_status]

\* C21: when the loop reads the sensors in two turns in a row and the second
\* snapshot is the first one again (no touch event and no clock button in
\* between), the reconciler's state after the second delivery is its state
\* after the first, and no move goes to the Rule Engine.
C21_SameSnapshotTwiceChangesNothing ==
  [][(/\ seen # NoDelivery /\ seen' # NoDelivery
      /\ io_expander_interrupt_flag /\ ~io_expander_interrupt_flag'
      /\ chessboard'.board_status = chessboard.board_status
      /\ ~button_interrupt_flag /\ touches' = touches)
       => /\ ReconcilerState(locals') = ReconcilerState(locals)
          /\ calls' = calls /\ game' = game]_vars

\* the king has been lifted, put back and lifted again, and the loop has read
\* the snapshot with the king off the board
C21_Witness ==
  /\ events = 3 /\ calls = 0 /\ touches = 0
  /\ occupied = OccupiedOf(game) \ {4}
  /\ seen # NoDelivery /\ seen.delta = 1
  /\ ~io_expander_interrupt_flag
  /\ locals.piece_removed /\ locals.potential_castle

\* the button of the side to move is held down alone, its interrupt is
\* pending and no candidate is pending; nothing else waits for the loop
ConfirmWithoutCandidate ==
  /\ locals.in_game_mode /\ locals.game_in_progress
  /\ ~locals.fix_board_flag /\ ~locals.force_fix_board_flag
  /\ button_interrupt_flag /\ ~io_expander_interrupt_flag
  /\ ~locals.move_complete_flag
  /\ IF game.turn = W THEN button_white /\ ~button_black
                      ELSE button_black /\ ~button_white

\* C22: the turn of the loop that serves a confirm press by the side to move
\* while no candidate is pending makes no Rule Engine call and leaves the
\* game, the side to move, the logical mirror and the baseline snapshot
\* unchanged; of the loop's state only the clock of that side changes: it
\* runs again.
C22_ConfirmWithoutCandidateOnlyRestartsTheClock ==
  [][(ConfirmWithoutCandidate /\ ~button_interrupt_flag' /\ touches' = touches)
       => /\ calls' = calls /\ last' = last /\ game' = game
          /\ game'.turn = game.turn
          /\ chessboard' = chessboard
          /\ locals'.prev_board_status = locals.prev_board_status
          /\ ~raised'
          /\ locals' = IF game.turn = W
                       THEN [locals EXCEPT !.white_clock_running = TRUE]
                       ELSE [locals EXCEPT !.black_clock_running = TRUE]]_vars

\* black, to move, holds the clock button down alone with the knight lifted
\* from b8 and no candidate; the press has been served and black's clock runs
C22_Witness ==
  /\ locals.game_in_progress /\ game.turn = B /\ calls = 0
  /\ presses = 1 /\ button_black /\ ~button_white /\ ~button_interrupt_flag
  /\ ~locals.move_complete_flag /\ locals.piece_removed
  /\ 57 \notin occupied
  /\ ~io_expander_interrupt_flag /\ ~raised
  /\ locals.black_clock_running /\ ~locals.white_clock_running

\* the rights of a side in a castling list
RightsOf(castling, side) ==
  {castling[k] : k \in 1..Len(castling)}
    \cap (IF side = W THEN {"K", "Q"} ELSE {"k", "q"})

\* what the claim promises of make_move(token) in position g: the call
\* returns True, king and rook stand on their castled squares, the mover's
\* rights are gone, the opponent's are kept, the halfmove clock is one more
CastlesAsPromised(g, token, r) ==
  /\ r.ret = "True"
  /\ r.g.board = RuleBoardAfter(g.board, token, g.turn)
  /\ RightsOf(r.g.castling, g.turn) = {}
  /\ RightsOf(r.g.castling, IF g.turn = W THEN B ELSE W)
       = RightsOf(g.castling, IF g.turn = W THEN B ELSE W)
  /\ r.g.halfmove = g.halfmove + 1

\* C23: in every position in which O-O or O-O-O is among the legal moves of
\* the side to move (with one or both of its rights present, giving check or
\* not), make_move of that castling returns True, puts king and rook on
\* their castled squares, removes all of the mover's rights and none of the
\* opponent's, and increases the halfmove clock by one.
C23_OfferedCastlingIsApplied ==
  Running =>
    \A token \in {OO, OOO} :
      CastleOffered(game, game.turn, token)
        => CastlesAsPromised(game, token, make_move(game, token, <<>>))

\* the pawns of the side to move
PawnsToMove(g) ==
  {sq \in Squares : g.board[sq] = (IF g.turn = W THEN "P" ELSE "p")}

\* the board the claim promises after the en-passant capture from a square:
\* the pawn on the en-passant target, its origin empty, and empty the square
\* one rank behind the target (white capturing) or ahead of it (black)
EnPassantBoard(g, from) ==
  LET target == algebraic_to_board_index(g.enpassant) IN
  [sq \in Squares |->
     IF sq = target THEN g.board[from]
     ELSE IF sq = from THEN " "
     ELSE IF sq = (IF g.turn = W THEN target - 8 ELSE target + 8) THEN " "
     ELSE g.board[sq]]

\* a notation that get_legal_moves marks as an en-passant capture
IsEnPassantNotation(move) ==
  Len(move) = 9 /\ Slice(move, 5, 9) = EP_SUFFIX

\* C24: in every position, for every pawn of the side to move and every
\* legal move of it that is an en-passant capture, make_move returns True and
\* the board after it has the pawn on the en-passant target square, the
\* origin empty, the captured pawn's square (one rank behind the target for
\* white, one rank ahead for black) empty and every other square unchanged.
C24_EnPassantFrame ==
  Running =>
    \A from \in PawnsToMove(game) :
      \A move \in LegalMovesOf(game, from) :
        IsEnPassantNotation(move)
          => LET r == make_move(game, move, <<>>) IN
             /\ r.ret = "True"
             /\ r.g.board = EnPassantBoard(game, from)

\* the last-rank squares the pawn on from can reach under the rules of chess:
\* the square ahead if it is empty, a diagonal square on a neighbouring file
\* if an enemy piece stands on it, the own king not left attacked
PromotionDestinations(board, from) ==
  LET white == board[from] = "P"
      side  == IF white THEN W ELSE B
      ahead == IF white THEN from + 8 ELSE from - 8
  IN
  IF board[from] \notin {"P", "p"} \/ from \div 8 # (IF white THEN 6 ELSE 1)
  THEN {}
  ELSE {to \in Squares :
          /\ to \div 8 = (IF white THEN 7 ELSE 0)
          /\ \/ to = ahead /\ board[to] = " "
             \/ /\ AbsDiff(to % 8, from % 8) = 1
                /\ is_enemy(board, to, side)
          /\ ~RuleInCheck([board EXCEPT ![from] = " ", ![to] = board[from]],
                          side)}

\* the notation of the promotion from a square to a square into a piece of
\* PROMOTED_PIECES, in the mover's colour
PromotionTo(board, from, to, piece) ==
  move_notation(from, to, board[to] # " ",
                IF board[from] = "P" THEN upper(piece) ELSE lower(piece),
                FALSE, FALSE)

\* the places of a move list that hold a move to a square
PlacesTo(moves, to) ==
  {k \in 1..Len(moves) : Len(moves[k]) >= 5
                           /\ Slice(moves[k], 3, 5) = board_index_to_algebraic(to)}

CaptureOrPawnMove(g, move) ==
  /\ ~IsCastleToken(move)
  /\ \/ g.board[algebraic_to_board_index(Slice(move, 0, 2))] \in {"P", "p"}
     \/ g.board[algebraic_to_board_index(Slice(move, 3, 5))] # " "

\* the counters and the side to move after a successful move by side
CountersFollow(g, h, move, side) ==
  /\ h.halfmove = IF CaptureOrPawnMove(g, move) THEN 0 ELSE g.halfmove + 1
  /\ h.fullmove = IF side = B THEN g.fullmove + 1 ELSE g.fullmove
  /\ h.turn # g.turn

\* C26: after every successful make_move the halfmove clock is 0 if the move
\* was a capture or a pawn move and otherwise one more than before, the
\* fullmove number is one more than before if black moved and unchanged if
\* white moved, and the side to move has flipped.
C26_CountersAfterEveryMove ==
  [][(last'.op = "make_move" /\ calls' = calls + 1 /\ last'.ret = "True")
       => CountersFollow(game, game', last'.move, last'.side)]_vars

\* C27: a newly constructed Chess object has an empty move history, and a
\* successful make_move on one object leaves the board, the castling rights
\* and the move history of every other object unchanged.
C27_InstancesAreIndependent ==
  [][/\ heap'.made = heap.made + 1
        => ViewOf(heap', heap'.on).history = <<>>
     /\ (last'.op = "make_move" /\ calls' = calls + 1 /\ last'.ret = "True")
        => \A j \in Instances \ {heap'.on} :
             heap.inst[j].made
               => /\ ViewOf(heap', j).board = ViewOf(heap, j).board
                  /\ ViewOf(heap', j).castling = ViewOf(heap, j).castling
                  /\ ViewOf(heap', j).history = ViewOf(heap, j).history]_vars

\* the standard starting position is on the board, white to move
AtStartingPosition ==
  /\ game.board = Chess(FEN_STARTING_POSITION).board
  /\ game.turn = W /\ game.castling = <<"K", "Q", "k", "q">>
  /\ game.enpassant = DASH

\* the places of a move list whose move starts from a square holding piece
PlacesOf(g, moves, piece) ==
  {k \in 1..Len(moves) :
     /\ ~IsCastleToken(moves[k])
     /\ g.board[algebraic_to_board_index(Slice(moves[k], 0, 2))] = piece}

\* C28: in the standard starting position all_legal_moves('w') has exactly
\* 20 moves, 16 of pawns and 4 of knights, no move twice and no castling.
C28_TwentyMovesAtTheStart ==
  AtStartingPosition =>
    LET legal == all_legal_moves(game, W, FALSE) IN
    /\ ~legal.raised
    /\ Len(legal.moves) = 20
    /\ Cardinality(PlacesOf(game, legal.moves, "P")) = 16
    /\ Cardinality(PlacesOf(game, legal.moves, "N")) = 4
    /\ \A j, k \in 1..Len(legal.moves) :
         legal.moves[j] = legal.moves[k] => j = k
    /\ \A k \in 1..Len(legal.moves) : ~IsCastleToken(legal.moves[k])

\* the starting position, with e2-e4 and g1-f3 among the moves of
\* all_legal_moves('w')
C28_Witness ==
  /\ AtStartingPosition /\ Running
  /\ ListedIn(all_legal_moves(game, W, FALSE), {<<"e","2","-","e","4">>}) = BTrue
  /\ ListedIn(all_legal_moves(game, W, FALSE), {<<"g","1","-","f","3">>}) = BTrue

\* the squares from which a pawn of the side opposing `side` captures onto
\* sq: an adjacent file, one rank toward the opponent's home side
PawnAttackSquares(sq, side) ==
  {t \in Squares :
     /\ (t % 8 = (sq % 8) + 1 \/ (t % 8) + 1 = sq % 8)
     /\ t \div 8 = (sq \div 8) + (IF side = W THEN 1 ELSE 0 - 1)}

\* the board with nothing but the pawns of the side opposing `side`
OpposingPawnsOnly(board, side) ==
  [t \in Squares |->
     IF board[t] = (IF side = W THEN "p" ELSE "P") THEN board[t] ELSE " "]

\* C29: for every square and both sides is_square_attacked returns a boolean
\* and reports a pawn attack exactly when an opposing pawn stands on one of
\* the two squares from which it captures onto the tested square, without
\* wrapping across the board edge and without indexing outside the board.
C29_PawnAttackOnEverySquare ==
  Running =>
    \A sq \in Squares : \A side \in {W, B} :
      is_square_attacked(sq, OpposingPawnsOnly(game.board, side), side)
        = B3(\E t \in PawnAttackSquares(sq, side) :
               game.board[t] = (IF side = W THEN "p" ELSE "P"))

\* the squares a knight on sq reaches: file differs by 1 and rank by 2, or
\* file by 2 and rank by 1
KnightSquares(sq) ==
  {t \in Squares :
     LET df == IF t % 8 > sq % 8 THEN (t % 8) - (sq % 8) ELSE (sq % 8) - (t % 8)
         dr == IF t \div 8 > sq \div 8 THEN (t \div 8) - (sq \div 8)
               ELSE (sq \div 8) - (t \div 8)
     IN (df = 1 /\ dr = 2) \/ (df = 2 /\ dr = 1)}

\* the destination squares of a list of knight moves, in order
KnightDestinations(moves) ==
  [k \in 1..Len(moves) |-> algebraic_to_board_index(Slice(moves[k], 3, 5))]

\* C30: every move of generate_knight_moves goes to a square a knight
\* reaches from the origin, never across the a-file or h-file edge, and every
\* such square that is empty or holds an enemy is produced exactly once.
C30_KnightMovesStayOnTheBoard ==
  Running =>
    \A sq \in Squares :
      (game.board[sq] \in {"N", "n"}) =>
        LET side  == IF game.board[sq] = "N" THEN W ELSE B
            dests == KnightDestinations(generate_knight_moves(game, sq))
        IN /\ \A k \in 1..Len(dests) : dests[k] \in KnightSquares(sq)
           /\ \A t \in KnightSquares(sq) :
                (game.board[t] = " " \/ is_enemy(game.board, t, side))
                  => Cardinality({k \in 1..Len(dests) : dests[k] = t}) = 1

\* the squares whose file and rank each differ by at most one from sq
KingSquares(sq) ==
  {t \in Squares \ {sq} :
     /\ t % 8 \in {(sq % 8) - 1, sq % 8, (sq % 8) + 1}
     /\ t \div 8 \in {(sq \div 8) - 1, sq \div 8, (sq \div 8) + 1}}

\* the board with nothing but the king of the side opposing `side`
OpposingKingOnly(board, side) ==
  [t \in Squares |->
     IF board[t] = (IF side = W THEN "k" ELSE "K") THEN board[t] ELSE " "]

\* C31: is_square_attacked reports an attack by the opposing king exactly
\* when that king stands on a square whose file and rank each differ by at
\* most one from the tested square; a king on the opposite edge file is not
\* adjacent.
C31_KingAttackIsAdjacency ==
  Running =>
    \A sq \in Squares : \A side \in {W, B} :
      LET answer == is_square_attacked(sq, OpposingKingOnly(game.board, side), side) IN
      answer # BRaise =>
        answer = B3(\E t \in KingSquares(sq) :
                      game.board[t] = (IF side = W THEN "k" ELSE "K"))

\* the en-passant moves among the legal moves of the piece on sq
EnPassantMovesOf(g, sq) ==
  LET legal == get_legal_moves(g, sq) IN
  IF legal.raised THEN {}
  ELSE {legal.moves[k] : k \in {j \in 1..Len(legal.moves) :
                                  IsEnPassantNotation(legal.moves[j])}}

\* sq is on the rank next to the en-passant target (the fifth rank for a
\* white pawn, the fourth for a black one) and on a file next to the target's
BesideEnPassantTarget(g, sq) ==
  LET target == algebraic_to_board_index(g.enpassant) IN
  /\ sq \div 8 = (IF g.board[sq] = "P" THEN 4 ELSE 3)
  /\ target \div 8 = (IF g.board[sq] = "P" THEN 5 ELSE 2)
  /\ (sq % 8 = (target % 8) + 1 \/ (sq % 8) + 1 = target % 8)

\* C32: every move get_legal_moves returns with the e.p. suffix has the
\* stored en-passant target as its destination, and is offered only to a pawn
\* on the rank next to that target, on a neighbouring file.
C32_EnPassantOnlyBesideTheTarget ==
  Running =>
    \A sq \in Squares : \A move \in EnPassantMovesOf(game, sq) :
      /\ game.enpassant # DASH
      /\ Slice(move, 3, 5) = game.enpassant
      /\ game.board[sq] \in {"P", "p"}
      /\ BesideEnPassantTarget(game, sq)

\* the moves of a list, as a set
MovesIn(moves) == {moves[k] : k \in 1..Len(moves)}

\* what the shortcut promises for one colour: it answers as the full search
\* does on emptiness, and returns nothing but fully legal moves
ShortcutAgrees(g, color) ==
  LET short == all_legal_moves(g, color, TRUE)
      full  == all_legal_moves(g, color, FALSE)
  IN
  /\ short.raised = full.raised
  /\ ~full.raised =>
       /\ (Len(short.moves) = 0) = (Len(full.moves) = 0)
       /\ MovesIn(short.moves) \subseteq MovesIn(full.moves)
       /\ \A move \in MovesIn(short.moves) : is_move_in_check(g, move) = BFalse
       /\ is_check(g, color) = BFalse =>
            is_stalemate(g, color) = B3(Len(full.moves) = 0)

\* C33: all_legal_moves(color, shortcut=True) is empty exactly when
\* all_legal_moves(color) is empty, and every move it returns has passed the
\* self-check filter, so is_stalemate tests the existence of a fully legal
\* move.
C33_ShortcutFindsALegalMove ==
  Running => \A color \in {W, B} : ShortcutAgrees(game, color)

\* after a move, the side to move has moves it could make but for its king,
\* none of them legal: the shortcut returns nothing and it is stalemate
C33_Witness ==
  /\ last.op = "make_move" /\ last.ret = "True"
  /\ AllPseudoMoves(game, game.turn) # <<>>
  /\ ~all_legal_moves(game, game.turn, TRUE).raised
  /\ all_legal_moves(game, game.turn, TRUE).moves = <<>>
  /\ is_stalemate(game, game.turn) = BTrue

\* the snapshot the sensors give for the squares occupied now
SnapshotNow == read_board(chessboard, occupied).board_status

\* the loop is about to read the sensors and nothing else: a change is
\* pending, no button is
SensorsPending ==
  /\ ~raised /\ locals.game_in_progress
  /\ io_expander_interrupt_flag /\ ~button_interrupt_flag
  /\ ~locals.force_fix_board_flag

\* the piece-lifted phase with a second square empty now: from lies empty in
\* the snapshot of the first lift, and to has been emptied since; one of the
\* two holds a piece of the side to move, the other a piece of the opponent
SecondSquareEmptied(from, to) ==
  /\ SensorsPending
  /\ locals.piece_removed /\ ~locals.capture_flag /\ ~locals.move_complete_flag
  /\ from # to
  /\ locals.board_status = locals.prev_board_status \ {CoordBit(from)}
  /\ locals.board_state_piece_lifted = locals.board_status
  /\ SnapshotNow = locals.board_status \ {CoordBit(to)}
  /\ CoordBit(to) \in locals.board_status
  /\ is_friendly(game.board, from, game.turn) # is_friendly(game.board, to, game.turn)
  /\ is_enemy(game.board, from, game.turn) # is_enemy(game.board, to, game.turn)

\* the capture-in-progress phase remembering the two vacated squares
CaptureLifted(from, to) ==
  /\ locals.piece_removed /\ locals.capture_flag /\ ~locals.move_complete_flag
  /\ locals.prev_board_status \ locals.board_state_captured_piece
       = {CoordBit(from), CoordBit(to)}
  /\ locals.board_state_captured_piece \subseteq locals.board_state_capturing_piece
  /\ locals.board_state_capturing_piece \subseteq locals.prev_board_status

\* the capturing piece of the two lifted ones: the one of the side to move
Capturing(from, to) == IF is_friendly(game.board, from, game.turn) THEN from ELSE to
Captured(from, to) == IF is_friendly(game.board, from, game.turn) THEN to ELSE from

\* the capturing piece has been put on the captured piece's square
CapturingPiecePlaced(from, to) ==
  /\ SensorsPending
  /\ CaptureLifted(from, to)
  /\ SnapshotNow = locals.prev_board_status \ {CoordBit(Capturing(from, to))}

\* the capture candidate: the move waits for the clock button
CaptureCandidate(from, to) ==
  /\ locals.move_complete_flag
  /\ locals.move_notation =
       board_index_to_algebraic(Capturing(from, to)) \o <<"x">>
         \o board_index_to_algebraic(Captured(from, to))

\* C34: from the piece-lifted phase, when a second square becomes empty the
\* reconciler enters the capture-in-progress phase remembering both vacated
\* squares, whichever of the two pieces was lifted first, and placing the
\* capturing piece on the captured piece's square then yields a capture
\* candidate.
C34_CaptureInEitherOrder ==
  [][\A from, to \in CaptureSquares :
       /\ (SecondSquareEmptied(from, to) /\ ~io_expander_interrupt_flag')
            => (~raised' /\ CaptureLifted(from, to)')
       /\ (CapturingPiecePlaced(from, to) /\ ~io_expander_interrupt_flag')
            => (~raised' /\ CaptureCandidate(from, to)')]_vars

\* the engine's chosen move, as the pair of its origin and its destination
EngineMove == <<Slice(uci.uci_move, 0, 2), Slice(uci.uci_move, 2, 4)>>

\* C35: when the side to move is played by the remote engine, a physical
\* move becomes a confirmable candidate only if both its origin square and
\* its destination square equal those of the engine's chosen move.
C35_RemoteCandidateIsTheEnginesMove ==
  [][(/\ RemoteToMove(World) /\ ~raised'
      /\ ~locals.move_complete_flag /\ locals'.move_complete_flag)
       => locals'.final_move = EngineMove]_vars

\* the colour of the piece a notation moves: the piece on its first square,
\* and for a castling token the side to move
MoverColour(g, move) ==
  IF IsCastleToken(move) THEN g.turn
  ELSE IF isupper(g.board[algebraic_to_board_index(Slice(move, 0, 2))]) THEN W
  ELSE B

\* C36: make_move applies a move only for the side whose turn it is: a call
\* whose side argument, or whose moved piece's colour, differs from the side
\* to move returns False with the state unchanged, so the successful moves
\* alternate white, black, white.
C36_OnlyTheSideToMoveMoves ==
  [][(last'.op = "make_move" /\ calls' = calls + 1)
       => /\ last'.ret = "True" =>
               /\ last'.side = game.turn
               /\ MoverColour(game, last'.move) = game.turn
               /\ game'.turn # game.turn
          /\ last'.ret = "False" => game' = game]_vars

\* C37: while a game is in progress and the reconciler is not in Desync, at
\* most one of the two clocks is running and it is the clock of the side to
\* move, after every sequence of confirm presses, those with no pending
\* candidate and those whose candidate the rule engine rejects included.
C37_OnlyTheMoversClockRuns ==
  (~raised /\ locals.game_in_progress /\ ~InDesync)
    => /\ ~(locals.white_clock_running /\ locals.black_clock_running)
       /\ locals.white_clock_running => game.turn = W
       /\ locals.black_clock_running => game.turn = B

\* C38: a game becomes in progress only while the sensor snapshot equals the
\* standard starting occupancy, so at the start of every game, the first and
\* every later one, the baseline snapshot agrees with the rule engine's
\* starting position.
C38_GameStartsFromTheStartingOccupancy ==
  [][(~raised' /\ ~locals.game_in_progress /\ locals'.game_in_progress)
       => /\ SnapshotNow = STARTING_POSITION
          /\ locals'.prev_board_status = STARTING_POSITION]_vars

\* C39: after reset_board, and after set_fen, the result is "*" (in progress)
\* and the check, checkmate, stalemate and game-over flags are all false,
\* also when the previous game on the same object ended in checkmate or
\* stalemate.
C39_ANewPositionIsInProgress ==
  (last.op \in {"reset_board", "set_fen"} /\ last.ret # "Raise")
    => /\ game.result = "*"
       /\ ~game.check_flag /\ ~game.checkmate_flag
       /\ ~game.stalemate_flag /\ ~game.game_over_flag

====
